---- MODULE Spec2Model ----
(***************************************************************************)
(* KioskForge: the resumable Script engine (kiosklib/script.py) and the    *)
(* typed configuration fields (toolbox/setup.py).                          *)
(*                                                                         *)
(* Texts are TLA+ strings; TLC evaluates Len, \o, SubSeq, Head and Tail on *)
(* them, so the text conversions of the code are computed character by     *)
(* character.                                                              *)
(***************************************************************************)
EXTENDS Integers, Sequences, FiniteSets, TLC

(***************************************************************************)
(* Bounds of the model.                                                    *)
(***************************************************************************)
\* The largest number of Actions a driver appends to the Script.
MaxActions == 3
\* The largest number of process invocations (first run plus resumed runs).
MaxRuns == 2

\* The Action instances a driver may append (an instance is its identity).
ActionIds == {"a1", "a2", "a3"}

\* The resume values a driver may pass to Script(logger, resume): int(argv).
ResumeValues == (0 - (MaxActions + 2)) .. (MaxActions + 2)

\* Exit statuses with which an Action can report failure.
FailStatuses == {1, 2}

(***************************************************************************)
(* State of the Script engine.                                             *)
(***************************************************************************)
VARIABLES
    actions,      \* Script.__actions: the appended Actions, in order
    resume,       \* Script.__resume
    pc,           \* "build", "loop", "exec", "done", "raised", "interrupted"
    iter,         \* the for loop's iterator: 0-based offset of the next Action
    index,        \* the local 'index' of execute(): the step index to log
    result,       \* the local 'result' of execute(); returned when pc = "done"
    broke,        \* TRUE when the for loop was left by 'break'
    raised,       \* the exception that left execute(), or NoError
    addRaised,    \* the exception raised by the last +=, or NoError
    log,          \* the lines written through the Logger, in order
    trace,        \* history: the Actions executed by this run and how each ended
    run,          \* number of the current process invocation
    prevLog       \* history: the log of the interrupted previous run

scriptVars == <<actions, resume, pc, iter, index, result, broke, raised,
                addRaised, log, trace, run, prevLog>>

(***************************************************************************)
(* State of the configuration model (toolbox/setup.py).                    *)
(***************************************************************************)
VARIABLES
    kiosk,        \* the Setup being edited: name -> [data, changed]
    edits,        \* number of calls made on it so far
    lastParse,    \* history: the last parse call that failed, if it was the latest
    file,         \* the lines of the file written by save (<<>>: not written)
    fileOf,       \* history: name -> data of the Setup when the file was written
    other,        \* a second Setup, constructed afresh and loaded from the file
    errors,       \* the list load_list returned for it
    loadMode,     \* "none", or how it was loaded: "strict" or "redefine"
    edited,       \* the names of the fields of kiosk that report "edited"
    twin,         \* a second Kiosk that receives the same calls as kiosk
    twinFile,     \* the lines of the file written by save for twin
    lastCall,     \* history: the latest assign, redact or save call on kiosk
    savedAfter,   \* history: lastCall as it was when the file was written
    prior         \* history: kiosk as it was before the latest call

kioskVars == <<edited, twin, twinFile, lastCall, savedAfter, prior>>

fieldVars == <<kiosk, edits, lastParse, file, fileOf, other, errors, loadMode,
               kioskVars>>

(***************************************************************************)
(* State of the disk the Actions of kiosk/actions.py work on.              *)
(***************************************************************************)
VARIABLES
    disk,         \* the file system: path -> [kind, text, owner, access]
    sealed,       \* the paths that carry the immutable attribute
    step,         \* the Action executed last and how its execute() ended
    once,         \* history: the disk right after that first execution
    retry,        \* how the re-execution of that Action ended, if it happened
    steps,        \* number of Actions executed so far
    prev          \* history: the disk before the latest execution

diskVars == <<disk, sealed, step, once, retry, steps, prev>>

(***************************************************************************)
(* State of single calls: the latest direct call of a Field's parse.       *)
(***************************************************************************)
VARIABLES
    parsed        \* history: [name, raw, before, field, error] of that call

callVars == <<parsed>>

(***************************************************************************)
(* State of one call of KioskDriver.main.                                  *)
(***************************************************************************)
VARIABLES
    program,      \* [driver, main, windowed]: the call, NoProgram before it
    dpc,          \* "idle", "main", "handled", "exited" or "escaped"
    thrown,       \* the exception that left _main, NoException if none did
    dlog,         \* the lines main and _main wrote through the Logger
    exitStatus,   \* the local 'status' of main; returned when dpc = "exited"
    rebooted,     \* TRUE when _main invoked the reboot command
    waited,       \* TRUE when main waited for ENTER before it returned
    outcomes      \* how each Action of the script of _main ends, in order

driverVars == <<program, dpc, thrown, dlog, exitStatus, rebooted, waited, outcomes>>

(***************************************************************************)
(* State of one call of ExternalAptAction.execute.                         *)
(***************************************************************************)
VARIABLES
    apc,          \* "idle", "frontend", "lock", "sleep", "invoke" or "returned"
    held,         \* [frontend, lock]: which dpkg lock files a process has open
    report,       \* [frontend, lock]: lsof's status in the latest poll, NoStatus if not run
    sleeps,       \* how often execute slept
    invoked,      \* how often execute invoked its command line
    aptStatus     \* the status of the Result execute returned, NoStatus before

aptVars == <<apc, held, report, sleeps, invoked, aptStatus>>

(***************************************************************************)
(* State of one run of KioskUpdate._main.                                  *)
(***************************************************************************)
VARIABLES
    upc,          \* the position of _main, "idle" before and "ended" after it
    initial,      \* TRUE when invoked with --initial
    upgrade_post, \* kiosk.upgrade_post.data
    vacuum_size,  \* kiosk.vacuum_size.data
    signal,       \* TRUE while the signal file of KioskOpenbox exists
    xorg,         \* TRUE while X11 runs
    failed,       \* the local 'failed' of _main
    uraised,      \* the error that left _main, NoException if none did
    posted        \* the post-upgrade command _main invoked, "" if none

updateVars == <<upc, initial, upgrade_post, vacuum_size, signal, xorg, failed, uraised, posted>>

runVars == <<aptVars, updateVars>>

toolVars == <<callVars, driverVars, runVars>>

vars == <<scriptVars, fieldVars, diskVars, toolVars>>

NoError == [type |-> "none", text |-> ""]

Min(a, b) == IF a < b THEN a ELSE b
Max(a, b) == IF a < b THEN b ELSE a

\* Result(status, output) with the defaults of the constructor.
Result(status, output) == [status |-> status, output |-> output]
DefaultResult == Result(0, "")

\* First offset of the Python slice list[start:] of a list of n elements.
SliceStart(start, n) ==
    IF start < 0 THEN Max(start + n, 0) ELSE Min(start, n)

\* Mutant: the range check forgets the resume value 0.
ResumeRejected_ZeroAccepted(r, n) == r > n

\* The range check at the top of execute().
ResumeRejected(r, n) == r = 0 \/ r > n

\* Mutant: the slice starts at the resume index itself (off by one).
FirstOffset_OffByOne(r, n) == SliceStart(r, n)

\* The offset at which 'for action in self.__actions[self.__resume - 1:]' starts.
FirstOffset(r, n) == SliceStart(r - 1, n)

\* Mutant: only the exit status 1 counts as a failure.
FailedStatus_OnlyOne(status) == status = 1

\* 'if result.status != 0' after an Action returned.
FailedStatus(status) == status # 0

\* 'except KioskError as that: result = Result(result.status, that.text)'.
KioskErrorResult(res, text) == Result(res.status, text)

\* 'except InternalError as that: result = Result(1, that.text)'.
InternalErrorResult(res, text) == Result(1, text)

\* Mutant: only the most recently appended Action is compared.
Contains_LastOnly(list, a) == Len(list) > 0 /\ list[Len(list)] = a

\* 'action in self.__actions': list membership by == (identity for Actions).
Contains(list, a) == \E i \in 1..Len(list) : list[i] = a

\* A line written through the Logger.
LogLine(kind, idx, text) == [kind |-> kind, index |-> idx, text |-> text]

\* A history record of one executed Action.
Step(pos, a, kind, status, output) ==
    [pos |-> pos, action |-> a, kind |-> kind, status |-> status, output |-> output]

\* The step index of the last step line of a log (0 when there is none).
RECURSIVE LastLoggedIndex(_)
LastLoggedIndex(lg) ==
    IF lg = <<>> THEN 0
    ELSE IF lg[Len(lg)].kind = "step" THEN lg[Len(lg)].index
    ELSE LastLoggedIndex(SubSeq(lg, 1, Len(lg) - 1))

(***************************************************************************)
(* Init: Script(logger, resume) as the driver constructs it.               *)
(***************************************************************************)
ScriptInit ==
    /\ actions = <<>>
    /\ resume \in ResumeValues
    /\ pc = "build"
    /\ iter = 0
    /\ index = 0
    /\ result = DefaultResult
    /\ broke = FALSE
    /\ raised = NoError
    /\ addRaised = NoError
    /\ log = <<>>
    /\ trace = <<>>
    /\ run = 1
    /\ prevLog = <<>>

(***************************************************************************)
(* Script.__iadd__                                                         *)
(***************************************************************************)
Append_(a) ==
    /\ pc = "build"
    /\ Len(actions) < MaxActions
    /\ IF Contains(actions, a)
         THEN /\ addRaised' = [type |-> "InternalError", text |-> "Action was added twice: " \o a]
              /\ UNCHANGED actions
         ELSE /\ actions' = Append(actions, a)
              /\ addRaised' = NoError
    /\ UNCHANGED <<resume, pc, iter, index, result, broke, raised, log, trace, run, prevLog>>
    /\ UNCHANGED <<fieldVars, diskVars, toolVars>>

(***************************************************************************)
(* Script.execute, up to the head of the for loop.                         *)
(***************************************************************************)
BeginExecute ==
    /\ pc \in {"build", "ready"}
    /\ result' = DefaultResult
    /\ IF ResumeRejected(resume, Len(actions))
         THEN /\ pc' = "raised"
              /\ raised' = [type |-> "KioskError", text |-> "Resume offset outside valid range"]
              /\ UNCHANGED <<iter, index, log>>
         ELSE /\ pc' = "loop"
              /\ log' = Append(log, LogLine("header", 0, "STEP ELAPSED  ACTION"))
              /\ index' = resume
              /\ iter' = FirstOffset(resume, Len(actions))
              /\ UNCHANGED raised
    /\ UNCHANGED <<actions, resume, broke, addRaised, trace, run, prevLog>>
    /\ UNCHANGED <<fieldVars, diskVars, toolVars>>

\* One iteration, first half: log the step line, increment the step index and
\* enter action.execute().
LogStep ==
    /\ pc = "loop"
    /\ ~broke
    /\ iter < Len(actions)
    /\ log' = Append(log, LogLine("step", index, actions[iter + 1]))
    /\ index' = index + 1
    /\ trace' = Append(trace, Step(iter + 1, actions[iter + 1], "running", 0, ""))
    /\ pc' = "exec"
    /\ UNCHANGED <<actions, resume, iter, result, broke, raised, addRaised, run, prevLog>>
    /\ UNCHANGED <<fieldVars, diskVars, toolVars>>

\* action.execute() returns Result(status, output).
ActionReturns(status) ==
    /\ pc = "exec"
    /\ LET a   == actions[iter + 1]
           out == IF status = 0 THEN "" ELSE "failed: " \o a
       IN  /\ result' = Result(status, out)
           /\ trace' = [trace EXCEPT ![Len(trace)] = Step(iter + 1, a, "returned", status, out)]
           /\ IF FailedStatus(status)
                THEN /\ log' = log \o <<LogLine("error", 0, out),
                                        LogLine("abort", 0, "*** SCRIPT ABORTED DUE TO ABOVE ERROR")>>
                     /\ broke' = TRUE
                     /\ UNCHANGED iter
                ELSE /\ iter' = iter + 1
                     /\ UNCHANGED <<log, broke>>
    /\ pc' = "loop"
    /\ UNCHANGED <<actions, resume, index, raised, addRaised, run, prevLog>>
    /\ UNCHANGED <<fieldVars, diskVars, toolVars>>

\* action.execute() raises KioskError(text).
ActionRaisesKioskError ==
    /\ pc = "exec"
    /\ LET a    == actions[iter + 1]
           text == "KioskError in " \o a
       IN  /\ result' = KioskErrorResult(result, text)
           /\ trace' = [trace EXCEPT ![Len(trace)] = Step(iter + 1, a, "KioskError", 0, text)]
    /\ iter' = iter + 1
    /\ pc' = "loop"
    /\ UNCHANGED <<actions, resume, index, broke, raised, addRaised, log, run, prevLog>>
    /\ UNCHANGED <<fieldVars, diskVars, toolVars>>

\* action.execute() raises InternalError(text).
ActionRaisesInternalError ==
    /\ pc = "exec"
    /\ LET a    == actions[iter + 1]
           text == "InternalError in " \o a
       IN  /\ result' = InternalErrorResult(result, text)
           /\ trace' = [trace EXCEPT ![Len(trace)] = Step(iter + 1, a, "InternalError", 0, text)]
    /\ iter' = iter + 1
    /\ pc' = "loop"
    /\ UNCHANGED <<actions, resume, index, broke, raised, addRaised, log, run, prevLog>>
    /\ UNCHANGED <<fieldVars, diskVars, toolVars>>

\* action.execute() raises an exception that is neither KioskError nor
\* InternalError (an OSError of open() or subprocess.run, a decoding error):
\* no except clause of execute() matches it.
ActionRaisesOther ==
    /\ pc = "exec"
    /\ LET a == actions[iter + 1]
       IN  /\ raised' = [type |-> "Exception", text |-> "exception in " \o a]
           /\ trace' = [trace EXCEPT ![Len(trace)] = Step(iter + 1, a, "Exception", 0, "")]
    /\ pc' = "raised"
    /\ UNCHANGED <<actions, resume, iter, index, result, broke, addRaised, log, run, prevLog>>
    /\ UNCHANGED <<fieldVars, diskVars, toolVars>>

\* After the loop: the final line, then 'return result'.
Finish ==
    /\ pc = "loop"
    /\ (broke \/ iter >= Len(actions))
    /\ log' = Append(log, LogLine("finished", index, "FORGE PROCESS FINISHED"))
    /\ pc' = "done"
    /\ UNCHANGED <<actions, resume, iter, index, result, broke, raised, addRaised, trace, run, prevLog>>
    /\ UNCHANGED <<fieldVars, diskVars, toolVars>>

(***************************************************************************)
(* The process is interrupted inside an Action (a reboot performed by the  *)
(* Action, a power cut) and started again with the step index read from    *)
(* the log; the new process builds the same Script.                        *)
(***************************************************************************)
Interrupt ==
    /\ pc = "exec"
    /\ run < MaxRuns
    /\ pc' = "interrupted"
    /\ UNCHANGED <<actions, resume, iter, index, result, broke, raised, addRaised, log, trace, run, prevLog>>
    /\ UNCHANGED <<fieldVars, diskVars, toolVars>>

Restart ==
    /\ pc = "interrupted"
    /\ resume' = LastLoggedIndex(log)
    /\ prevLog' = log
    /\ log' = <<>>
    /\ trace' = <<>>
    /\ iter' = 0
    /\ index' = 0
    /\ result' = DefaultResult
    /\ broke' = FALSE
    /\ run' = run + 1
    /\ pc' = "ready"
    /\ UNCHANGED <<actions, raised, addRaised>>
    /\ UNCHANGED <<fieldVars, diskVars, toolVars>>

ScriptNext ==
    \/ \E a \in ActionIds : Append_(a)
    \/ BeginExecute
    \/ LogStep
    \/ \E s \in {0} \cup FailStatuses : ActionReturns(s)
    \/ ActionRaisesKioskError
    \/ ActionRaisesInternalError
    \/ ActionRaisesOther
    \/ Finish
    \/ Interrupt
    \/ Restart


(***************************************************************************)
(* Text operations of Python, computed on TLA+ strings.                    *)
(***************************************************************************)
Char(s, i) == SubSeq(s, i, i)

DigitChars == "0123456789"
UpperChars == "ABCDEFGHIJKLMNOPQRSTUVWXYZ"
LowerChars == "abcdefghijklmnopqrstuvwxyz"

CharsOf(s) == {Char(s, i) : i \in 1..Len(s)}
Digits == CharsOf(DigitChars)
Letters == CharsOf(UpperChars) \cup CharsOf(LowerChars)

\* The characters \u0020-\u007e, and the characters '.' matches among those
\* the model's texts are made of (everything but the newline).
PunctuationChars == " !#$%&'()*+,-./:;<=>?@[]^_{|}~"
Printable == Letters \cup Digits \cup CharsOf(PunctuationChars)
AnyButNewline == Printable \cup {"\t", "\r", "\f"}

\* The whitespace str.strip() and str.rstrip() remove.
IsSpace(c) == c \in {" ", "\t", "\n", "\r", "\f"}

\* str.rstrip()
RECURSIVE RStrip(_)
RStrip(s) ==
    IF s # "" /\ IsSpace(Char(s, Len(s))) THEN RStrip(SubSeq(s, 1, Len(s) - 1)) ELSE s

\* str.lstrip()
RECURSIVE LStrip(_)
LStrip(s) ==
    IF s # "" /\ IsSpace(Char(s, 1)) THEN LStrip(SubSeq(s, 2, Len(s))) ELSE s

\* str.strip()
Strip(s) == LStrip(RStrip(s))

\* str.find(c) for a one-character c: the 0-based offset of the first
\* occurrence, or -1.
RECURSIVE FindFrom(_, _, _)
FindFrom(s, c, i) ==
    IF i > Len(s) THEN 0 - 1
    ELSE IF Char(s, i) = c THEN i - 1
    ELSE FindFrom(s, c, i + 1)
Find(s, c) == FindFrom(s, c, 1)

\* str.lower(), one character.
LowerChar(c) ==
    IF \E i \in 1..Len(UpperChars) : Char(UpperChars, i) = c
      THEN Char(LowerChars, CHOOSE i \in 1..Len(UpperChars) : Char(UpperChars, i) = c)
      ELSE c

\* str.lower()
RECURSIVE Lower(_)
Lower(s) == IF s = "" THEN "" ELSE LowerChar(Char(s, 1)) \o Lower(SubSeq(s, 2, Len(s)))

DigitValue(c) == (CHOOSE i \in 1..Len(DigitChars) : Char(DigitChars, i) = c) - 1

\* The value of a string of digits and underscores, read left to right.
RECURSIVE DigitsValue(_, _)
DigitsValue(s, acc) ==
    IF s = "" THEN acc
    ELSE IF Char(s, 1) = "_" THEN DigitsValue(SubSeq(s, 2, Len(s)), acc)
    ELSE DigitsValue(SubSeq(s, 2, Len(s)), 10 * acc + DigitValue(Char(s, 1)))

\* The digit part of an integer literal int() accepts: digits, with single
\* underscores allowed between digits.
IsIntBody(s) ==
    /\ s # ""
    /\ \A i \in 1..Len(s) : Char(s, i) \in Digits \cup {"_"}
    /\ Char(s, 1) \in Digits /\ Char(s, Len(s)) \in Digits
    /\ \A i \in 1..(Len(s) - 1) : ~(Char(s, i) = "_" /\ Char(s, i + 1) = "_")

\* int(text): surrounding whitespace is ignored, one sign may precede the
\* digits.  ok = FALSE stands for the ValueError int() raises.
PyInt(text) ==
    LET t    == Strip(text)
        sign == IF t # "" /\ Char(t, 1) \in {"+", "-"} THEN Char(t, 1) ELSE ""
        body == IF sign # "" THEN SubSeq(t, 2, Len(t)) ELSE t
    IN  IF IsIntBody(body)
          THEN [ok |-> TRUE,
                value |-> IF sign = "-" THEN 0 - DigitsValue(body, 0) ELSE DigitsValue(body, 0)]
          ELSE [ok |-> FALSE, value |-> 0]

\* time.strptime(text, "%H:%M") succeeds: an hour of one or two digits
\* (0..23), a colon, a minute of one or two digits (0..59), nothing else.
IsHour(s) ==
    /\ Len(s) \in {1, 2}
    /\ \A i \in 1..Len(s) : Char(s, i) \in Digits
    /\ DigitsValue(s, 0) <= 23
IsMinute(s) ==
    /\ Len(s) \in {1, 2}
    /\ \A i \in 1..Len(s) : Char(s, i) \in Digits
    /\ DigitsValue(s, 0) <= 59
StrptimeHM(text) ==
    LET colon == Find(text, ":")
    IN  /\ colon >= 1
        /\ IsHour(SubSeq(text, 1, colon))
        /\ IsMinute(SubSeq(text, colon + 2, Len(text)))

\* re.fullmatch of a pattern of the form [class]{lower,upper}.
FullMatchClass(text, class, lower, upper) ==
    /\ Len(text) >= lower /\ Len(text) <= upper
    /\ \A i \in 1..Len(text) : Char(text, i) \in class

\* BOOLEANS: the accepted spellings of the two truth values.
BooleanKeys == {"0", "f", "false", "n", "1", "t", "true", "y"}
BOOLEANS(key) == key \in {"1", "t", "true", "y"}

\* str.split("\n")
RECURSIVE SplitLines(_)
SplitLines(s) ==
    LET nl == Find(s, "\n")
    IN  IF nl < 0 THEN <<s>>
        ELSE <<SubSeq(s, 1, nl)>> \o SplitLines(SubSeq(s, nl + 2, Len(s)))

\* str(n) for a natural number n.
RECURSIVE Str(_)
Str(n) ==
    IF n < 10 THEN Char(DigitChars, n + 1)
    ELSE Str(n \div 10) \o Char(DigitChars, (n % 10) + 1)

(***************************************************************************)
(* The Field classes.  A field is [data, changed]; parse returns the field *)
(* after the call and the FieldError it raised (NoFieldError: none).       *)
(***************************************************************************)
NoFieldError == [type |-> "none", field |-> "", text |-> ""]
FieldError(name, text) == [type |-> "FieldError", field |-> name, text |-> text]

Accepted(fld) == [field |-> fld, error |-> NoFieldError]
Rejected(cur, err) == [field |-> cur, error |-> err]

\* BooleanField.parse
BooleanParse(d, cur, raw) ==
    IF Len(raw) = 0
      THEN Rejected(cur, FieldError(d.name, "Missing value in field"))
    ELSE IF Lower(raw) \in BooleanKeys
      THEN Accepted([data |-> BOOLEANS(Lower(raw)), changed |-> TRUE])
    ELSE Rejected(cur, FieldError(d.name, "Invalid value in field"))

\* Mutant: the value is stored before the bounds are checked.
NaturalParse_StoreFirst(d, cur, raw) ==
    IF raw = "" \/ Char(raw, 1) = "-" \/ ~PyInt(raw).ok
      THEN Rejected(cur, FieldError(d.name, "Invalid integer in field"))
    ELSE IF PyInt(raw).value < d.lower \/ PyInt(raw).value > d.upper
      THEN Rejected([data |-> PyInt(raw).value, changed |-> cur.changed],
                    FieldError(d.name, "Value outside bounds in field"))
    ELSE Accepted([data |-> PyInt(raw).value, changed |-> TRUE])

\* NaturalField.parse
NaturalParse(d, cur, raw) ==
    IF raw = ""
      THEN Rejected(cur, FieldError(d.name, "Missing value in field"))
    ELSE IF Char(raw, 1) = "-"
      THEN Rejected(cur, FieldError(d.name, "Invalid positive integer in field"))
    ELSE IF ~PyInt(raw).ok
      THEN Rejected(cur, FieldError(d.name, "Invalid integer in field"))
    ELSE IF PyInt(raw).value < d.lower \/ PyInt(raw).value > d.upper
      THEN Rejected(cur, FieldError(d.name, "Value outside bounds in field"))
    ELSE Accepted([data |-> PyInt(raw).value, changed |-> TRUE])

\* OptionalStringField.parse
OptionalStringParse(d, cur, raw) == Accepted([data |-> raw, changed |-> TRUE])

\* StringField.parse
StringParse(d, cur, raw) ==
    IF raw = ""
      THEN Rejected(cur, FieldError(d.name, "Missing value in field"))
      ELSE OptionalStringParse(d, cur, raw)

\* ChoiceField.parse
ChoiceParse(d, cur, raw) ==
    IF raw \notin d.choices
      THEN Rejected(cur, FieldError(d.name, "Invalid value in field"))
      ELSE StringParse(d, cur, raw)

\* PasswordField.parse
PasswordParse(d, cur, raw) ==
    IF raw = ""
      THEN Rejected(cur, FieldError(d.name, "Password cannot be empty"))
    ELSE IF Char(raw, 1) = "$"
      THEN Rejected(cur, FieldError(d.name, "Password cannot begin with a dollar sign ($)"))
    ELSE IF Len(raw) > 72
      THEN Rejected(cur, FieldError(d.name, "Password too long - cannot exceed 72 characters"))
    ELSE StringParse(d, cur, raw)

\* Mutant: the text is not matched against the pattern.
RegexParse_NoMatch(d, cur, raw) ==
    IF raw = ""
      THEN Rejected(cur, FieldError(d.name, "Missing value in field"))
      ELSE StringParse(d, cur, raw)

\* RegexField.parse
RegexParse(d, cur, raw) ==
    IF raw = ""
      THEN Rejected(cur, FieldError(d.name, "Missing value in field"))
    ELSE IF ~FullMatchClass(raw, d.class, d.lower, d.upper)
      THEN Rejected(cur, FieldError(d.name, "Invalid value in field"))
    ELSE StringParse(d, cur, raw)

\* OptionalRegexField.parse
OptionalRegexParse(d, cur, raw) ==
    IF raw = "" THEN OptionalStringParse(d, cur, raw) ELSE RegexParse(d, cur, raw)

\* OptionalTimeField.parse
OptionalTimeParse(d, cur, raw) ==
    IF raw = "" THEN OptionalStringParse(d, cur, raw)
    ELSE IF StrptimeHM(raw) THEN OptionalStringParse(d, cur, raw)
    ELSE Rejected(cur, FieldError(d.name, "Invalid time specification"))

\* field.parse(raw), dispatched on the class of the field.
Parse(d, cur, raw) ==
    CASE d.kind = "Boolean"        -> BooleanParse(d, cur, raw)
      [] d.kind = "Natural"        -> NaturalParse(d, cur, raw)
      [] d.kind = "OptionalString" -> OptionalStringParse(d, cur, raw)
      [] d.kind = "String"         -> StringParse(d, cur, raw)
      [] d.kind = "Choice"         -> ChoiceParse(d, cur, raw)
      [] d.kind = "Password"       -> PasswordParse(d, cur, raw)
      [] d.kind = "Regex"          -> RegexParse(d, cur, raw)
      [] d.kind = "OptionalRegex"  -> OptionalRegexParse(d, cur, raw)
      [] d.kind = "OptionalTime"   -> OptionalTimeParse(d, cur, raw)

\* field.text: the serialized form of data.
TextOf(d, fld) ==
    CASE d.kind = "Boolean" -> (IF fld.data THEN "true" ELSE "false")
      [] d.kind = "Natural" -> Str(fld.data)
      [] OTHER              -> fld.data

\* field.type: the description written into the help block.
TypeOf(d) ==
    CASE d.kind = "Boolean"        -> "boolean value: 'true' or 'false'"
      [] d.kind = "Natural"        -> "natural number: integer without a sign"
      [] d.kind = "OptionalString" -> "optional, possibly empty string"
      [] d.kind = "String"         -> "mandatory, non-empty string"
      [] d.kind = "Choice"         -> "mandatory value from list of valid values"
      [] d.kind = "Password"       -> "mandatory, non-empty password"
      [] d.kind = "Regex"          -> "mandatory regular expression: a valid pattern"
      [] d.kind = "OptionalRegex"  -> "optional, possibly empty regular expression"
      [] d.kind = "OptionalTime"   -> "optional, possibly empty time string of the form HH:MM"

\* The data member a constructor sets before it calls parse(default).
Blank(d) ==
    [data |-> CASE d.kind = "Boolean" -> FALSE
                [] d.kind = "Natural" -> 0
                [] OTHER              -> "",
     changed |-> FALSE]

\* Field.__init__ of every class: _set = False, then self.parse(data).
NewField(d) == Parse(d, Blank(d), d.default).field

(***************************************************************************)
(* Setup: declared fields, in declaration order.  Every Field class is     *)
(* represented; the further fields of Setup repeat these classes.         *)
(***************************************************************************)
FieldDecl(name, kind, default, lower, upper, choices, class) ==
    [name |-> name, kind |-> kind, default |-> default, lower |-> lower,
     upper |-> upper, choices |-> choices, class |-> class]

Declared ==
    << FieldDecl("comment", "OptionalString", "", 0, 0, {}, {}),
       FieldDecl("device", "Choice", "pi4b", 0, 0, {"pi4b", "pi5", "pc"}, {}),
       FieldDecl("command", "String", "https://google.com", 0, 0, {}, {}),
       FieldDecl("hostname", "OptionalRegex", "", 1, 63, {}, Letters \cup Digits \cup {"-"}),
       FieldDecl("mouse", "Boolean", "false", 0, 0, {}, {}),
       FieldDecl("user_name", "Regex", "kiosk", 1, 32, {}, Letters \cup Digits \cup {"_"}),
       FieldDecl("user_code", "Password", "Xk3_generated-token", 0, 0, {}, {}),
       FieldDecl("ssh_key", "OptionalString", "", 0, 0, {}, {}),
       FieldDecl("wifi_name", "OptionalRegex", "", 1, 32, {}, AnyButNewline),
       FieldDecl("wifi_code", "OptionalRegex", "", 8, 63, {}, Printable),
       FieldDecl("swap_size", "Natural", "4", 0, 128, {}, {}),
       FieldDecl("upgrade_time", "OptionalTime", "05:00", 0, 0, {}, {}),
       FieldDecl("idle_timeout", "Natural", "0", 0, 24 * 60 * 60, {}, {}) >>

Names == {Declared[i].name : i \in 1..Len(Declared)}
Decl(name) == Declared[CHOOSE i \in 1..Len(Declared) : Declared[i].name = name]

\* Setup.__init__: every field constructed with its default.
NewSetup == [n \in Names |-> NewField(Decl(n))]

\* The first line of each field's hint (the *_HELP texts); the further lines
\* of a hint are written the same way, each behind "# ".
Hint(name) ==
    CASE name = "comment"      -> "A comment for your records about the kiosk machine."
      [] name = "device"       -> "Specifies the hardware type of the kiosk.  Valid values are:"
      [] name = "command"      -> "This is the action that the kiosk should take when it starts up."
      [] name = "hostname"     -> "The unqualified host name, which may consists of US English letters, digits,"
      [] name = "mouse"        -> "If the mouse should be enabled."
      [] name = "user_name"    -> "The user name of the non-root primary Linux user."
      [] name = "user_code"    -> "The password for the user whose name is given in the 'user_name' option."
      [] name = "ssh_key"      -> "The public SSH key used to access the kiosk with the 'ssh' command."
      [] name = "wifi_name"    -> "The Wi-Fi network name (SSID)."
      [] name = "wifi_code"    -> "The password of the Wi-Fi network."
      [] name = "swap_size"    -> "The size in gigabytes of the system swap file, if any."
      [] name = "upgrade_time" -> "The time of day to upgrade the system."
      [] name = "idle_timeout" -> "The number of seconds of idle time before Chromium is restarted.  A value"

\* TextWriter.write(text): one line per piece of text.split(os.linesep).
WriteText(text) == SplitLines(text)

Asterisks == "#******************************************************************************"

\* The lines Options.save writes before a field's name=value line: the
\* help block of the i-th declared field.
HelpBlock ==
    [i \in 1..Len(Declared) |->
        WriteText(Asterisks)
        \o WriteText("# Option '" \o Declared[i].name \o "' (" \o TypeOf(Declared[i]) \o "):")
        \o WriteText("#")
        \o WriteText("# " \o Hint(Declared[i].name))
        \o WriteText(Asterisks)]

\* The lines Options.save writes for the i-th declared field.
SaveField(setup, i) ==
    HelpBlock[i]
    \o WriteText(Declared[i].name \o "=" \o TextOf(Declared[i], setup[Declared[i].name]))
    \o WriteText("")

RECURSIVE SaveFields(_, _)
SaveFields(setup, i) ==
    IF i > Len(Declared) THEN <<>>
    ELSE SaveField(setup, i) \o SaveFields(setup, i + 1)

\* The lines Options.save writes ahead of the fields.
Banner ==
    WriteText("# KioskForge v0.24 kiosk definition file.")
    \o WriteText("# Please edit this file using your favorite text editor such as Notepad.")
    \o WriteText("")

\* Options.save: the lines of the file it writes.
SaveLines(setup) == Banner \o SaveFields(setup, 1)

\* An entry of the list load_list returns.
TextFileError(path, number, text) == [file |-> path, line |-> number, text |-> text]

\* Attributes of the Options object that getattr() finds without calling
\* __getattr__: they have no 'changed', so the AttributeError clause reports them.
ObjectAttributes == {"save", "load_list", "load_safe"}

\* Mutant: an assigned field may be assigned again.
RedefinitionRejected_Never(allow_redefinitions, fld) == FALSE

\* 'if not allow_redefinitions and field.changed'
RedefinitionRejected(allow_redefinitions, fld) == ~allow_redefinitions /\ fld.changed

\* 'if line == "" or line[0] in ['#', ';']: continue' on the stripped line.
Ignored(rawLine) ==
    LET line == RStrip(rawLine)
    IN  line = "" \/ Char(line, 1) \in {"#", ";"}

\* The body of the for loop of load_list for one line that is not ignored.
LoadLine(setup, path, number, rawLine, allow_redefinitions) ==
    LET line  == RStrip(rawLine)
        idx   == Find(line, "=")
        name  == Strip(SubSeq(line, 1, idx))
        data  == Strip(SubSeq(line, idx + 2, Len(line)))
        Error(text) == [setup |-> setup, errors |-> <<TextFileError(path, number, text)>>]
    IN  IF Char(line, 1) = "[" /\ Char(line, Len(line)) = "]"
          THEN Error("Sections not supported in kiosk files")
        ELSE IF idx = 0 - 1
          THEN Error("Missing delimiter (=) in line")
        ELSE IF name \in ObjectAttributes
          THEN Error("Unknown option ignored: " \o name)
        ELSE IF name \notin Names
          THEN Error("Unknown option: " \o name)
        ELSE IF RedefinitionRejected(allow_redefinitions, setup[name])
          THEN Error("Illegal redefinition of field '" \o name \o "'")
        ELSE LET r == Parse(Decl(name), setup[name], data)
             IN  IF r.error.type = "none"
                   THEN [setup |-> [setup EXCEPT ![name] = r.field], errors |-> <<>>]
                   ELSE Error(r.error.text)

\* The for loop of load_list from line 'number' on.  Ignored lines change
\* nothing, so the loop steps from one line that is not ignored (those are
\* 'kept') to the next.
RECURSIVE LoadLines(_, _, _, _, _, _, _)
LoadLines(setup, path, lines, kept, number, allow_redefinitions, errs) ==
    IF \A i \in kept : i < number THEN [setup |-> setup, errors |-> errs]
    ELSE LET i == CHOOSE k \in kept : k >= number /\ \A m \in kept : m >= number => k <= m
             r == LoadLine(setup, path, i, lines[i], allow_redefinitions)
         IN  LoadLines(r.setup, path, lines, kept, i + 1, allow_redefinitions, errs \o r.errors)

\* stream.read().split('\n') of a file written line by line: every line ends
\* with a newline, so the split yields one empty string more.
ReadLines(written) == written \o <<"">>

\* Options.load_list on the lines of a file: the Setup afterwards and the
\* list of errors returned.
LoadList(setup, path, written, allow_redefinitions) ==
    LET lines == ReadLines(written)
        kept  == {i \in 1..Len(lines) : ~Ignored(lines[i])}
    IN  LoadLines(setup, path, lines, kept, 1, allow_redefinitions, <<>>)

KioskPath == "KioskForge.kiosk"

(***************************************************************************)
(* Inputs of the configuration model.                                      *)
(***************************************************************************)
\* The largest number of parse calls made on the Setup.
MaxEdits == 2
\* The largest number of parse calls made on a Setup before it is saved.
MaxSavedEdits == 1

\* The fields parse is called on directly: one or more of every Field class.
ParseNames ==
    {"comment", "device", "command", "hostname", "mouse", "user_name",
     "user_code", "swap_size", "upgrade_time", "idle_timeout"}

\* The raw texts handed to parse.
RawTexts ==
    {"", " ", "5", "-5", "30", "+7", "129", "1_0", " 9", "x",
     "true", "T", "No", "yes", "pi5", "05:00", "7:5", "24:00",
     " hi ", "a=b", "a\nb"}

(***************************************************************************)
(* Init and the operations on the configuration model.                     *)
(***************************************************************************)
\* password_create(32) draws a fresh token for every Kiosk constructed: a
\* second Kiosk differs from the first in user_code only.
TwinPassword == "Qm7-other_token-9z"
TwinSetup == [NewSetup EXCEPT !["user_code"] = Parse(Decl("user_code"), @, TwinPassword).field]

\* No call has been made yet.
NoCall == [op |-> "none", names |-> <<>>, done |-> {}, error |-> NoFieldError]

\* No parse call has failed since the last one that succeeded.
NoFailure == [field |-> "", before |-> [data |-> "", changed |-> FALSE], error |-> NoFieldError]

\* The largest number of lines of a hand-written file.
MaxLines == 3

\* The lines hand-written files are made of.
FileLines ==
    {"swap_size=4", "idle_timeout=30", "swap_size=7", "swap_size=-5", " mouse = T ",
     "[kiosk]", "no delimiter", "nosuch=1", "# note", ""}

\* The hand-written files: 1..MaxLines lines.
HandFiles == UNION {[1..k -> FileLines] : k \in 1..MaxLines}

\* Setup() and Kiosk() as constructed, before any call.
FieldsStart ==
    /\ kiosk = NewSetup
    /\ edits = 0
    /\ lastParse = NoFailure
    /\ fileOf = [n \in Names |-> NewSetup[n].data]
    /\ other = NewSetup
    /\ errors = <<>>
    /\ loadMode = "none"
    /\ edited = {}
    /\ twin = TwinSetup
    /\ twinFile = <<>>
    /\ lastCall = NoCall
    /\ savedAfter = NoCall
    /\ prior = NewSetup

FieldsInit == FieldsStart /\ file = <<>>

\* kiosk.<name>.parse(raw)
ParseField(n, raw) ==
    /\ edits < MaxEdits
    /\ LET r == Parse(Decl(n), kiosk[n], raw)
       IN  /\ kiosk' = [kiosk EXCEPT ![n] = r.field]
           /\ lastParse' = IF r.error.type = "none" THEN NoFailure
                            ELSE [field |-> n, before |-> kiosk[n], error |-> r.error]
    /\ edits' = edits + 1
    /\ UNCHANGED <<file, fileOf, other, errors, loadMode>>
    /\ UNCHANGED kioskVars
    /\ UNCHANGED <<scriptVars, diskVars, toolVars>>

\* kiosk.save(path, version)
Save ==
    /\ file' = SaveLines(kiosk)
    /\ fileOf' = [n \in Names |-> kiosk[n].data]
    /\ UNCHANGED <<kiosk, edits, lastParse, other, errors, loadMode>>
    /\ UNCHANGED kioskVars
    /\ UNCHANGED <<scriptVars, diskVars, toolVars>>

\* other = Setup(); errors = other.load_list(path, allow_redefinitions)
LoadFresh(allow_redefinitions) ==
    /\ file # <<>>
    /\ LET r == LoadList(NewSetup, KioskPath, file, allow_redefinitions)
       IN  /\ other' = r.setup
           /\ errors' = r.errors
    /\ loadMode' = IF allow_redefinitions THEN "redefine" ELSE "strict"
    /\ UNCHANGED <<kiosk, edits, lastParse, file, fileOf>>
    /\ UNCHANGED kioskVars
    /\ UNCHANGED <<scriptVars, diskVars, toolVars>>

(***************************************************************************)
(* Kiosk (kiosklib/kiosk.py): assign, redact and save.                     *)
(***************************************************************************)
\* The largest number of assign, redact and save calls made on a Kiosk.
MaxCalls == 3

\* The names and texts handed to assign ("nosuch" is not declared).
AssignNames == {"user_code", "swap_size", "wifi_code", "nosuch"}
AssignTexts == {"", "5", "REDACTED"}

\* Mutant: redact blanks the fields.
Sentinel_Blank == ""

\* The text redact assigns.
Sentinel == "REDACTED"

\* Fields.assign(name, rawText): looks the field up (an unknown name is an
\* error), delegates to Field.parse; the caller marks the field edited.
AssignField(setup, n, raw) ==
    IF n \notin Names
      THEN [setup |-> setup,
            error |-> [type |-> "UnknownField", field |-> n, text |-> "Unknown option: " \o n]]
      ELSE LET r == Parse(Decl(n), setup[n], raw)
           IN  [setup |-> [setup EXCEPT ![n] = r.field], error |-> r.error]

\* Mutant: redact returns without assigning anything.
RedactFrom_Nothing(setup, names, done) ==
    [setup |-> setup, done |-> done \cup {names[i] : i \in 1..Len(names)}, error |-> NoFieldError]

\* Kiosk.redact: 'for field in fields: self.assign(field, "REDACTED")'.  An
\* assign that raises ends the loop; 'done' are the names assigned so far.
RECURSIVE RedactFrom(_, _, _)
RedactFrom(setup, names, done) ==
    IF names = <<>> THEN [setup |-> setup, done |-> done, error |-> NoFieldError]
    ELSE LET r == AssignField(setup, Head(names), Sentinel)
         IN  IF r.error.type # "none"
               THEN [setup |-> setup, done |-> done, error |-> r.error]
               ELSE RedactFrom(r.setup, Tail(names), done \cup {Head(names)})

\* Kiosk.redact_prepare: the fields redacted for the installation medium.
PrepareFields == <<"wifi_code">>

\* Mutant: the report leaves the SSH key in place.
ReportFields_NoSshKey == <<"comment", "user_name", "user_code", "wifi_name", "wifi_code">>

\* Kiosk.redact_report: the fields redacted for the report archive.
ReportFields == <<"comment", "user_name", "user_code", "wifi_name", "wifi_code", "ssh_key">>

\* KioskZipper: the fields it assigns "REDACTED" before it saves Kiosk.kiosk.
ZipperFields == <<"user_name", "user_code", "wifi_name", "wifi_code", "ssh_key">>

\* The redaction paths of the program, and two further lists a caller of
\* redact may pass.
RedactLists ==
    [prepare |-> PrepareFields, report |-> ReportFields, zipper |-> ZipperFields,
     password |-> <<"user_code">>, mixed |-> <<"ssh_key", "swap_size", "user_name">>]
RedactPaths == DOMAIN RedactLists

\* Mutant: save leaves the edited flags as they are.
ClearEdited_Keep(e) == e

\* Fields.save: writing clears every field's edited flag.
ClearEdited(e) == {}

\* kiosk.assign(n, raw), made on both Kiosks.
Assign(n, raw) ==
    /\ edits < MaxCalls
    /\ LET r == AssignField(kiosk, n, raw)
           t == AssignField(twin, n, raw)
           ok == r.error.type = "none"
       IN  /\ kiosk' = r.setup
           /\ twin' = t.setup
           /\ edited' = IF ok THEN edited \cup {n} ELSE edited
           /\ lastCall' = [op |-> "assign", names |-> <<n>>,
                           done |-> IF ok THEN {n} ELSE {}, error |-> r.error]
    /\ prior' = kiosk
    /\ edits' = edits + 1
    /\ UNCHANGED <<lastParse, file, fileOf, other, errors, loadMode, twinFile, savedAfter>>
    /\ UNCHANGED <<scriptVars, diskVars, toolVars>>

\* kiosk.redact(RedactLists[path]), made on both Kiosks: redact_prepare,
\* redact_report, the loop of KioskZipper, or a direct call.
Redact(path) ==
    /\ edits < MaxCalls
    /\ LET r == RedactFrom(kiosk, RedactLists[path], {})
           t == RedactFrom(twin, RedactLists[path], {})
       IN  /\ kiosk' = r.setup
           /\ twin' = t.setup
           /\ edited' = edited \cup r.done
           /\ lastCall' = [op |-> path, names |-> RedactLists[path],
                           done |-> r.done, error |-> r.error]
    /\ prior' = kiosk
    /\ edits' = edits + 1
    /\ UNCHANGED <<lastParse, file, fileOf, other, errors, loadMode, twinFile, savedAfter>>
    /\ UNCHANGED <<scriptVars, diskVars, toolVars>>

\* kiosk.save(path), made on both Kiosks.
SaveKiosk ==
    /\ edits < MaxCalls
    /\ edits' = edits + 1
    /\ file' = SaveLines(kiosk)
    /\ twinFile' = SaveLines(twin)
    /\ fileOf' = [n \in Names |-> kiosk[n].data]
    /\ edited' = ClearEdited(edited)
    /\ savedAfter' = lastCall
    /\ lastCall' = [op |-> "save", names |-> <<>>, done |-> {}, error |-> NoFieldError]
    /\ prior' = kiosk
    /\ UNCHANGED <<kiosk, twin, lastParse, other, errors, loadMode>>
    /\ UNCHANGED <<scriptVars, diskVars, toolVars>>

(***************************************************************************)
(* The Actions that change files (kiosk/actions.py) and the disk they      *)
(* work on.  Every folder of Paths lies directly under the root folder,    *)
(* which always exists; the process runs as ProcessUser.                   *)
(***************************************************************************)
MaxSteps == 2

Paths == {"/srv", "/srv/a", "/b"}
Users == {"root", "kiosk"}
ProcessUser == "root"

\* stat.S_IXUSR, stat.S_IRUSR | stat.S_IWUSR, and the modes of a file that
\* open() and of a folder that mkdir creates under the usual umask (0o644,
\* 0o755).
S_IXUSR == 64
UserReadWrite == 384
DefaultAccess == 420
FolderAccess == 493

NoEntry == [kind |-> "absent", text |-> "", owner |-> "", access |-> 0]
FileEntry(text, owner, access) ==
    [kind |-> "file", text |-> text, owner |-> owner, access |-> access]
FolderEntry(owner, access) ==
    [kind |-> "folder", text |-> "", owner |-> owner, access |-> access]

\* os.path.dirname: everything before the last slash, without trailing
\* slashes unless it consists of slashes only.
LastSlash(p) ==
    CHOOSE i \in 0..Len(p) :
        /\ i = 0 \/ Char(p, i) = "/"
        /\ \A j \in (i + 1)..Len(p) : Char(p, j) # "/"

RECURSIVE RStripSlash(_)
RStripSlash(s) ==
    IF s # "" /\ Char(s, Len(s)) = "/" THEN RStripSlash(SubSeq(s, 1, Len(s) - 1))
    ELSE s

DirName(p) ==
    LET head == SubSeq(p, 1, LastSlash(p))
    IN  IF RStripSlash(head) = "" THEN head ELSE RStripSlash(head)

IsDir(d, p) == p = "/" \/ (p \in DOMAIN d /\ d[p].kind = "folder")
IsFile(d, p) == p \in DOMAIN d /\ d[p].kind = "file"
Under(p, q) == Len(p) > Len(q) /\ SubSeq(p, 1, Len(q) + 1) = q \o "/"

\* The OSError the system raises for a path that does not exist.
MissingError(d, p) ==
    IF IsFile(d, DirName(p)) THEN "NotADirectoryError" ELSE "FileNotFoundError"

\* str.replace: every non-overlapping occurrence, from the left.
RECURSIVE StrReplace(_, _, _)
StrReplace(s, old, new) ==
    IF old = "" THEN
        IF s = "" THEN new
        ELSE new \o Char(s, 1) \o StrReplace(SubSeq(s, 2, Len(s)), old, new)
    ELSE IF Len(s) < Len(old) THEN s
    ELSE IF SubSeq(s, 1, Len(old)) = old
         THEN new \o StrReplace(SubSeq(s, Len(old) + 1, Len(s)), old, new)
         ELSE Char(s, 1) \o StrReplace(SubSeq(s, 2, Len(s)), old, new)

\* How execute() ends: it returns Result(status, ...) or an exception leaves it.
Returned(d, status) == [disk |-> d, status |-> status, raised |-> "none"]
Threw(d, exception) == [disk |-> d, status |-> 0, raised |-> exception]

DeleteFileAction(d, s, path) ==
    IF IsFile(d, path) /\ path \notin s
    THEN Returned([d EXCEPT ![path] = NoEntry], 0)
    ELSE Returned(d, 1)

TryDeleteFileAction(d, s, path) ==
    IF IsFile(d, path) THEN DeleteFileAction(d, s, path) ELSE Returned(d, 0)

RemoveFolderAction(d, s, path) ==
    IF IsDir(d, path)
    THEN Returned([q \in DOMAIN d |->
                     IF q = path \/ Under(q, path) THEN NoEntry ELSE d[q]], 0)
    ELSE IF IsFile(d, path) \/ MissingError(d, path) = "NotADirectoryError"
    THEN Threw(d, "NotADirectoryError")
    ELSE Returned(d, 1)

ModifyTextAction(d, s, mode, path, text) ==
    IF IsDir(d, path) THEN Threw(d, "IsADirectoryError")
    ELSE IF ~IsDir(d, DirName(path)) THEN Threw(d, MissingError(d, path))
    ELSE IF path \in s THEN Returned(d, 1)
    ELSE IF IsFile(d, path)
    THEN Returned([d EXCEPT ![path].text = IF mode = "at" THEN @ \o text ELSE text], 0)
    ELSE Returned([d EXCEPT ![path] = FileEntry(text, ProcessUser, DefaultAccess)], 0)

CreateTextAction(d, s, path, text) == ModifyTextAction(d, s, "wt", path, text)

AppendTextAction(d, s, path, text) == ModifyTextAction(d, s, "at", path, text)

CreateTextWithUserAndModeAction(d, s, path, user, access, text) ==
    LET folder == DirName(path)
        exec == IF (access \div S_IXUSR) % 2 = 1 THEN access ELSE access + S_IXUSR
        made == [d EXCEPT ![folder] = FolderEntry(user, exec)]
    IN  IF ~IsDir(d, folder) /\ IsFile(d, folder) THEN Threw(d, "FileExistsError")
        ELSE LET d1 == IF IsDir(d, folder) THEN d ELSE made
                 result1 == CreateTextAction(d1, s, path, text)
             IN  IF result1.raised # "none" \/ result1.status # 0 THEN result1
                 ELSE Returned([result1.disk EXCEPT ![path].owner = user,
                                                    ![path].access = access], 0)

ReplaceTextAction(d, s, path, source_text, target_text) ==
    IF ~IsDir(d, path) /\ ~IsFile(d, path) THEN Returned(d, 1)
    ELSE IF ~IsFile(d, path) THEN Threw(d, "KioskError")
    ELSE IF target_text = source_text THEN Threw(d, "InternalError")
    ELSE LET output_text == StrReplace(d[path].text, source_text, target_text)
         IN  IF output_text = source_text THEN Threw(d, "KioskError")
             ELSE IF path \in s THEN Returned(d, 1)
             ELSE Returned([d EXCEPT ![path].text = output_text], 0)

\* The Actions a script is built from here, one record per constructor call.
NoAction == [class |-> "none", path |-> "", text |-> "", source_text |-> "",
             target_text |-> "", user |-> "", access |-> 0]
PathAction(class, path) == [NoAction EXCEPT !.class = class, !.path = path]
TextAction(class, path, text) ==
    [NoAction EXCEPT !.class = class, !.path = path, !.text = text]
ReplaceAction(path, source_text, target_text) ==
    [NoAction EXCEPT !.class = "ReplaceTextAction", !.path = path,
                     !.source_text = source_text, !.target_text = target_text]

FileActions ==
    {PathAction("DeleteFileAction", "/b"),
     PathAction("TryDeleteFileAction", "/b"),
     PathAction("TryDeleteFileAction", "/srv/a"),
     PathAction("RemoveFolderAction", "/srv"),
     PathAction("RemoveFolderAction", "/b"),
     TextAction("CreateTextAction", "/srv/a", "k=1\n"),
     TextAction("CreateTextAction", "/b", "k=1\n"),
     [TextAction("CreateTextWithUserAndModeAction", "/srv/a", "k=1\n")
         EXCEPT !.user = "kiosk", !.access = UserReadWrite],
     [TextAction("CreateTextWithUserAndModeAction", "/b", "k=1\n")
         EXCEPT !.user = "kiosk", !.access = UserReadWrite],
     TextAction("AppendTextAction", "/b", "/swapfile\tnone\tswap\tsw\t0\t0"),
     ReplaceAction("/b", "#k", "k"),
     ReplaceAction("/b", "k", "kk"),
     ReplaceAction("/b", "k", "k")}

\* Action.execute(), by class.
ActionExecute(a, d, s) ==
    CASE a.class = "DeleteFileAction" -> DeleteFileAction(d, s, a.path)
      [] a.class = "TryDeleteFileAction" -> TryDeleteFileAction(d, s, a.path)
      [] a.class = "RemoveFolderAction" -> RemoveFolderAction(d, s, a.path)
      [] a.class = "CreateTextAction" -> CreateTextAction(d, s, a.path, a.text)
      [] a.class = "AppendTextAction" -> AppendTextAction(d, s, a.path, a.text)
      [] a.class = "CreateTextWithUserAndModeAction" ->
            CreateTextWithUserAndModeAction(d, s, a.path, a.user, a.access, a.text)
      [] a.class = "ReplaceTextAction" ->
            ReplaceTextAction(d, s, a.path, a.source_text, a.target_text)

NoStep == [action |-> NoAction, status |-> 0, raised |-> "none"]
NoRetry == [done |-> FALSE, status |-> 0, raised |-> "none"]
Completed(st) == st.action # NoAction /\ st.status = 0 /\ st.raised = "none"

EmptyDisk == [p \in Paths |-> NoEntry]

\* The disks a script may find: "/b" and "/srv" absent, a file or a folder,
\* "/srv/a" a file when "/srv" is a folder.
StartEntries(p) ==
    CASE p = "/b" -> {NoEntry, FolderEntry("root", FolderAccess)}
                        \cup {FileEntry(t, "root", DefaultAccess) :
                                 t \in {"", "#k=1\n", "##k"}}
      [] p = "/srv" -> {NoEntry, FolderEntry("root", FolderAccess),
                        FileEntry("", "root", DefaultAccess)}
      [] p = "/srv/a" -> {NoEntry, FileEntry("k=0\n", "root", DefaultAccess)}

StartDisks ==
    {d \in [Paths -> UNION {StartEntries(p) : p \in Paths}] :
        /\ \A p \in Paths : d[p] \in StartEntries(p)
        /\ d["/srv/a"] # NoEntry => d["/srv"].kind = "folder"}

DiskStart ==
    /\ step = NoStep
    /\ once = disk
    /\ retry = NoRetry
    /\ steps = 0
    /\ prev = disk

DiskInit == disk = EmptyDisk /\ sealed = {} /\ DiskStart

\* Script.execute() reaches the Action 'a' and calls its execute().
ExecuteStep(a) ==
    /\ steps < MaxSteps
    /\ LET ended == ActionExecute(a, disk, sealed)
       IN  /\ disk' = ended.disk
           /\ once' = ended.disk
           /\ step' = [action |-> a, status |-> ended.status, raised |-> ended.raised]
    /\ retry' = NoRetry
    /\ steps' = steps + 1
    /\ prev' = disk
    /\ UNCHANGED sealed
    /\ UNCHANGED <<scriptVars, fieldVars, toolVars>>

\* The run is resumed at the step that completed last: its Action is
\* executed a second time.
RetryStep ==
    /\ Completed(step)
    /\ ~retry.done
    /\ LET ended == ActionExecute(step.action, disk, sealed)
       IN  /\ disk' = ended.disk
           /\ retry' = [done |-> TRUE, status |-> ended.status, raised |-> ended.raised]
    /\ prev' = disk
    /\ UNCHANGED <<sealed, step, once, steps>>
    /\ UNCHANGED <<scriptVars, fieldVars, toolVars>>

(***************************************************************************)
(* Single calls of Field.parse on the fields of a fresh Setup, and the     *)
(* cron schedule KioskSetup builds from a time field.                      *)
(***************************************************************************)
CallTexts ==
    RawTexts \cup
    {"y", "Y", "n", "N", "no", "YES", "f", "false", "FALSE", "0", "1", "t",
     "True", "on", "128", "-0", "+0", "007", "00:00", "23:59", "05:60",
     "5:00", "05:7", "0:0", "005:00", "05:00 ", "0500"}

NoParsed ==
    [name |-> "", raw |-> "", before |-> [data |-> "", changed |-> FALSE],
     field |-> [data |-> "", changed |-> FALSE], error |-> NoFieldError]

CallInit == parsed = NoParsed

\* Setup().<name>.parse(raw)
ParseCall(n, raw) ==
    /\ LET r == Parse(Decl(n), NewSetup[n], raw)
       IN  parsed' = [name |-> n, raw |-> raw, before |-> NewSetup[n],
                      field |-> r.field, error |-> r.error]
    /\ UNCHANGED <<scriptVars, fieldVars, diskVars, driverVars, runVars>>

\* text[start:stop] for 0 <= start <= stop: the slice is cut at the end of
\* the text.
Slice(text, start, stop) ==
    SubSeq(text, Min(start, Len(text)) + 1, Min(stop, Len(text)))

\* The schedule of the cron line: data[3:5] for the minute, data[0:2] for
\* the hour.
CronMinute(data) == Slice(data, 3, 5)
CronHour(data) == Slice(data, 0, 2)


(***************************************************************************)
(* KioskDriver.main of kiosklib/driver.py and of toolbox/driver.py, and    *)
(* the end of KioskSetup._main with the Script of toolbox/script.py.       *)
(***************************************************************************)
MaxOutcomes == 3

EXIT_SUCCESS == 0
EXIT_FAILURE == 1

Drivers == {"kiosklib", "toolbox"}

\* An exception: its class, the attribute that carries its text ("text" for
\* the Error classes, "strerror" for OSError, "str" when there is only
\* str(that)), the text, and the index of an ArgumentError.
Exc(type, attr, text, idx) == [type |-> type, attr |-> attr, text |-> text, index |-> idx]
NoException == Exc("none", "", "", 0 - 1)

ErrorClasses ==
    {"CommandError", "FieldError", "TextFileError", "InputError", "KioskError",
     "InternalError", "SyntaxError", "ArgumentError"}

\* What _main may raise: the Error classes, exceptions of Python and of its
\* library, and the KeyboardInterrupt of Ctrl-C.
Exceptions ==
    {Exc(c, "text", "bad " \o c, 0 - 1) : c \in ErrorClasses \ {"ArgumentError"}}
        \cup {Exc("ArgumentError", "text", "bad argument", i) : i \in {0 - 1, 2}}
        \cup {Exc("OSError", "strerror", "No such file or directory", 0 - 1),
              Exc("ValueError", "str", "invalid literal for int()", 0 - 1),
              Exc("KeyboardInterrupt", "str", "", 0 - 1)}

IsException(e) == e.type # "KeyboardInterrupt"

\* str(that): TextFileError and FieldError of kiosklib format themselves.
StrOf(e) == IF e.type = "TextFileError" THEN "(file) Error: " \o e.text ELSE e.text

\* The handlers of main in kiosklib/driver.py, first match first.
KiosklibHandler(e) ==
    CASE e.type = "CommandError" -> <<"Syntax: " \o e.text>>
      [] e.type = "FieldError" -> <<StrOf(e)>>
      [] e.type = "InternalError" -> <<"Internal error: " \o e.text>>
      [] e.type = "KioskError" -> <<"Error: " \o e.text>>
      [] e.type = "TextFileError" -> <<StrOf(e)>>
      [] e.type \in ErrorClasses -> <<"Unknown error: " \o e.text>>
      [] e.type = "KeyboardInterrupt" ->
            <<"Break error: The user hit Ctrl-C to abort the script">>
      [] OTHER -> <<"Fatal error: " \o e.text, "Traceback">>

\* Mutant: main of toolbox/driver.py without its 'except Exception' clause.
ToolboxHandler_NoGeneric(e) ==
    CASE e.type = "ArgumentError" ->
            <<(IF e.index # 0 - 1 THEN "(#" \o Str(e.index) \o ") " ELSE "")
                 \o "Error: " \o e.text>>
      [] e.type = "SyntaxError" -> <<"Syntax: " \o e.text>>
      [] e.type = "InternalError" -> <<"Internal Error: " \o e.text>>
      [] e.type = "KioskError" -> <<"Error: " \o e.text>>
      [] OTHER -> <<>>

\* The handlers of main in toolbox/driver.py; <<>> when none matches.
ToolboxHandler(e) ==
    CASE e.type = "ArgumentError" ->
            <<(IF e.index # 0 - 1 THEN "(#" \o Str(e.index) \o ") " ELSE "")
                 \o "Error: " \o e.text>>
      [] e.type = "SyntaxError" -> <<"Syntax: " \o e.text>>
      [] e.type = "InternalError" -> <<"Internal Error: " \o e.text>>
      [] e.type = "KioskError" -> <<"Error: " \o e.text>>
      [] IsException(e) -> <<"Fatal error: " \o e.text, "Traceback">>
      [] OTHER -> <<>>

Handler(driver, e) ==
    IF driver = "kiosklib" THEN KiosklibHandler(e) ELSE ToolboxHandler(e)

\* How an Action of the script ends: it returns status 0 or 1, raises
\* KioskError or InternalError, or raises some other exception.
ActionOutcomes == {"ok", "failed", "KioskError", "InternalError", "OSError"}

\* Script.execute of toolbox/script.py over the Actions from 'resume' on
\* (0-based): [executed, result, raised, lines].
RECURSIVE ToolboxLoop(_, _, _)
ToolboxLoop(outs, i, acc) ==
    IF i > Len(outs) THEN acc
    ELSE LET line == Str(i - 1) \o " step"
             ran  == [acc EXCEPT !.executed = @ + 1, !.lines = Append(@, line)]
         IN  CASE outs[i] = "ok" ->
                    ToolboxLoop(outs, i + 1, [ran EXCEPT !.result = Result(0, "")])
               [] outs[i] = "failed" ->
                    [ran EXCEPT !.result = Result(1, "failed"),
                                !.lines = @ \o <<"failed",
                                    "**** SCRIPT ABORTED DUE TO ABOVE ERROR ****">>]
               [] outs[i] \in {"KioskError", "InternalError"} ->
                    ToolboxLoop(outs, i + 1,
                                [ran EXCEPT !.result = Result(1, "bad " \o outs[i])])
               [] OTHER ->
                    [ran EXCEPT !.raised =
                        Exc("OSError", "strerror", "No such file or directory", 0 - 1)]

ToolboxExecute(outs, r) ==
    LET start == [executed |-> 0, result |-> Result(0, ""), raised |-> NoException,
                  lines |-> <<>>]
    IN  IF r >= Len(outs)
        THEN [start EXCEPT !.raised =
                Exc("ArgumentError", "text",
                    "Resume offset greater than total number of actions", 0)]
        ELSE ToolboxLoop(outs, r + 1, start)

\* The end of KioskSetup._main: [raised, lines, rebooted].
SetupMain(outs, r) ==
    LET ended == ToolboxExecute(outs, r)
    IN  IF ended.raised # NoException
        THEN [raised |-> ended.raised, lines |-> ended.lines, rebooted |-> FALSE]
        ELSE IF ended.result.status # 0
        THEN [raised |-> Exc("KioskError", "text", ended.result.output, 0 - 1),
              lines |-> ended.lines, rebooted |-> FALSE]
        ELSE [raised |-> NoException,
              lines |-> Append(ended.lines, "*** SUCCESS - REBOOTING SYSTEM INTO KIOSK MODE"),
              rebooted |-> TRUE]

NoProgram == [driver |-> "", main |-> "", windowed |-> FALSE, resume |-> 0]

DriverInit ==
    /\ program = NoProgram
    /\ dpc = "idle"
    /\ thrown = NoException
    /\ dlog = <<>>
    /\ exitStatus = EXIT_FAILURE
    /\ rebooted = FALSE
    /\ waited = FALSE
    /\ outcomes = <<>>

\* main(argv) is called and enters _main.
EnterMain(driver, main, windowed, r, outs) ==
    /\ dpc = "idle"
    /\ program' = [driver |-> driver, main |-> main, windowed |-> windowed, resume |-> r]
    /\ outcomes' = outs
    /\ exitStatus' = EXIT_FAILURE
    /\ dpc' = "main"
    /\ UNCHANGED <<thrown, dlog, rebooted, waited>>
    /\ UNCHANGED <<scriptVars, fieldVars, diskVars, callVars, runVars>>

\* _main ended with 'exc' (NoException: it returned) after writing
\* 'lines'; the try statement of main does the rest.
AfterMain(exc, lines) ==
    /\ thrown' = exc
    /\ IF exc = NoException
         THEN /\ exitStatus' = EXIT_SUCCESS
              /\ dlog' = dlog \o lines
              /\ dpc' = "handled"
         ELSE /\ UNCHANGED exitStatus
              /\ dlog' = dlog \o lines \o Handler(program.driver, exc)
              /\ dpc' = IF Handler(program.driver, exc) = <<>> THEN "escaped"
                        ELSE "handled"

\* The _main of some driver class returns.
MainReturns ==
    /\ dpc = "main" /\ program.main = "any"
    /\ AfterMain(NoException, <<>>)
    /\ UNCHANGED <<program, rebooted, waited, outcomes>>
    /\ UNCHANGED <<scriptVars, fieldVars, diskVars, callVars, runVars>>

\* The _main of some driver class raises.
MainRaises(e) ==
    /\ dpc = "main" /\ program.main = "any"
    /\ AfterMain(e, <<>>)
    /\ UNCHANGED <<program, rebooted, waited, outcomes>>
    /\ UNCHANGED <<scriptVars, fieldVars, diskVars, callVars, runVars>>

\* KioskSetup._main executes its script and ends.
SetupMainEnds ==
    /\ dpc = "main" /\ program.main = "KioskSetup"
    /\ LET ended == SetupMain(outcomes, program.resume)
       IN  /\ AfterMain(ended.raised, ended.lines)
           /\ rebooted' = ended.rebooted
    /\ UNCHANGED <<program, waited, outcomes>>
    /\ UNCHANGED <<scriptVars, fieldVars, diskVars, callVars, runVars>>

\* The end of main: the wait for ENTER in a window, then 'return status'.
MainExits ==
    /\ dpc = "handled"
    /\ waited' = program.windowed
    /\ dpc' = "exited"
    /\ UNCHANGED <<program, thrown, dlog, exitStatus, rebooted, outcomes>>
    /\ UNCHANGED <<scriptVars, fieldVars, diskVars, callVars, runVars>>

(***************************************************************************)
(* ExternalAptAction.execute: wait until lsof reports neither dpkg lock    *)
(* file open, then invoke the command line.                                *)
(***************************************************************************)
MaxSleeps == 3

NoStatus == -1

\* The exit statuses of an external program that the model tells apart.
Statuses == {0, 1}

\* The status of 'lsof FILE': 0 when some process has FILE open.
Lsof(open) == IF open THEN 0 ELSE 1

NoReport == [frontend |-> NoStatus, lock |-> NoStatus]

AptInit ==
    /\ apc = "idle"
    /\ held \in [frontend : BOOLEAN, lock : BOOLEAN]
    /\ report = NoReport
    /\ sleeps = 0
    /\ invoked = 0
    /\ aptStatus = NoStatus

\* Another process (apt in the background) opens or closes a lock file.
LockChanges ==
    /\ \E f \in {"frontend", "lock"} : held' = [held EXCEPT ![f] = ~@]
    /\ UNCHANGED <<apc, report, sleeps, invoked, aptStatus>>
    /\ UNCHANGED <<scriptVars, fieldVars, diskVars, callVars, driverVars, updateVars>>

\* The call: the while condition is about to be evaluated.
AptExecute ==
    /\ apc = "idle"
    /\ apc' = "frontend"
    /\ UNCHANGED <<held, report, sleeps, invoked, aptStatus>>
    /\ UNCHANGED <<scriptVars, fieldVars, diskVars, callVars, driverVars, updateVars>>

\* Mutant: the left operand of 'or' decides the while condition alone.
PollFrontend_Alone ==
    /\ apc = "frontend"
    /\ report' = [frontend |-> Lsof(held.frontend), lock |-> NoStatus]
    /\ apc' = IF report'.frontend = 0 THEN "sleep" ELSE "invoke"
    /\ UNCHANGED <<held, sleeps, invoked, aptStatus>>
    /\ UNCHANGED <<scriptVars, fieldVars, diskVars, callVars, driverVars, updateVars>>

\* The left operand of 'or': lsof /var/lib/dpkg/lock-frontend. Status 0
\* makes the condition true without the right operand being evaluated.
PollFrontend ==
    /\ apc = "frontend"
    /\ report' = [frontend |-> Lsof(held.frontend), lock |-> NoStatus]
    /\ apc' = IF report'.frontend = 0 THEN "sleep" ELSE "lock"
    /\ UNCHANGED <<held, sleeps, invoked, aptStatus>>
    /\ UNCHANGED <<scriptVars, fieldVars, diskVars, callVars, driverVars, updateVars>>

\* The right operand of 'or': lsof /var/lib/dpkg/lock.
PollLock ==
    /\ apc = "lock"
    /\ report' = [report EXCEPT !.lock = Lsof(held.lock)]
    /\ apc' = IF report'.lock = 0 THEN "sleep" ELSE "invoke"
    /\ UNCHANGED <<held, sleeps, invoked, aptStatus>>
    /\ UNCHANGED <<scriptVars, fieldVars, diskVars, callVars, driverVars, updateVars>>

\* The body of the loop: the alert, five seconds of sleep, the next poll.
AptSleep ==
    /\ apc = "sleep"
    /\ sleeps < MaxSleeps
    /\ sleeps' = sleeps + 1
    /\ apc' = "frontend"
    /\ UNCHANGED <<held, report, invoked, aptStatus>>
    /\ UNCHANGED <<scriptVars, fieldVars, diskVars, callVars, driverVars, updateVars>>

\* After the loop: ExternalAction.execute invokes the command line.
AptInvoke(st) ==
    /\ apc = "invoke"
    /\ invoked' = invoked + 1
    /\ aptStatus' = st
    /\ apc' = "returned"
    /\ UNCHANGED <<held, report, sleeps>>
    /\ UNCHANGED <<scriptVars, fieldVars, diskVars, callVars, driverVars, updateVars>>

(***************************************************************************)
(* KioskUpdate._main from the loaded configuration on.                     *)
(***************************************************************************)
PostActions == {"poweroff", "reboot"}

VacuumSizes == {0, 256}

AptSteps == <<"autoremove", "update", "upgrade", "clean">>

UpdateInit ==
    /\ upc = "idle"
    /\ initial = FALSE
    /\ upgrade_post = "reboot"
    /\ vacuum_size = 256
    /\ signal = FALSE
    /\ xorg = TRUE
    /\ failed = FALSE
    /\ uraised = NoException
    /\ posted = ""

\* invoke_text_safe: a KioskError with the output when the status is not 0.
Safe(st, next, text) ==
    IF st = 0
    THEN upc' = next /\ uraised' = uraised
    ELSE upc' = "ended" /\ uraised' = Exc("KioskError", "text", text, 0)

\* The arguments are parsed and the kiosk is loaded.
UpdateStarts(init, post, size) ==
    /\ upc = "idle"
    /\ initial' = init
    /\ upgrade_post' = post
    /\ vacuum_size' = size
    /\ upc' = "vacuum"
    /\ UNCHANGED <<signal, xorg, failed, uraised, posted>>
    /\ UNCHANGED <<scriptVars, fieldVars, diskVars, callVars, driverVars, aptVars>>

\* Step 1: journalctl --vacuum-size, unless the size is 0.
Vacuum(st) ==
    /\ upc = "vacuum"
    /\ IF vacuum_size # 0
       THEN Safe(st, "internet", "journalctl failed")
       ELSE upc' = "internet" /\ uraised' = uraised
    /\ UNCHANGED <<initial, upgrade_post, vacuum_size, signal, xorg, failed, posted>>
    /\ UNCHANGED <<scriptVars, fieldVars, diskVars, callVars, driverVars, aptVars>>

\* Step 2: internet_active() decides between the upgrade and step 7.
InternetActive(active) ==
    /\ upc = "internet"
    /\ upc' = IF ~active THEN "stopping"
              ELSE IF initial THEN "refresh" ELSE "signal"
    /\ UNCHANGED <<initial, upgrade_post, vacuum_size, signal, xorg, failed, uraised, posted>>
    /\ UNCHANGED <<scriptVars, fieldVars, diskVars, callVars, driverVars, aptVars>>

\* signal.create(): KioskOpenbox is asked to shut Chromium down.
SignalCreate ==
    /\ upc = "signal"
    /\ signal' = TRUE
    /\ upc' = "waiting"
    /\ UNCHANGED <<initial, upgrade_post, vacuum_size, xorg, failed, uraised, posted>>
    /\ UNCHANGED <<scriptVars, fieldVars, diskVars, callVars, driverVars, aptVars>>

\* KioskOpenbox has shut Chromium down and removes the signal file.
OpenboxRemovesSignal ==
    /\ signal
    /\ signal' = FALSE
    /\ UNCHANGED <<upc, initial, upgrade_post, vacuum_size, xorg, failed, uraised, posted>>
    /\ UNCHANGED <<scriptVars, fieldVars, diskVars, callVars, driverVars, aptVars>>

\* 'while signal.exists: time.sleep(1)' is left, then killall Xorg.
KillXorg(st) ==
    /\ upc = "waiting"
    /\ ~signal
    /\ Safe(st, "refresh", "killall failed")
    /\ xorg' = (st # 0)
    /\ UNCHANGED <<initial, upgrade_post, vacuum_size, signal, failed, posted>>
    /\ UNCHANGED <<scriptVars, fieldVars, diskVars, callVars, driverVars, aptVars>>

\* Step 3: snap refresh.
SnapRefresh(st) ==
    /\ upc = "refresh"
    /\ Safe(st, "cups", "snap refresh failed")
    /\ UNCHANGED <<initial, upgrade_post, vacuum_size, signal, xorg, failed, posted>>
    /\ UNCHANGED <<scriptVars, fieldVars, diskVars, callVars, driverVars, aptVars>>

\* snap remove --purge cups, whose Result is ignored.
PurgeCups(st) ==
    /\ upc = "cups"
    /\ upc' = "cleanup"
    /\ UNCHANGED <<initial, upgrade_post, vacuum_size, signal, xorg, failed, uraised, posted>>
    /\ UNCHANGED <<scriptVars, fieldVars, diskVars, callVars, driverVars, aptVars>>

\* Step 4: snap_cleanup, which raises when 'snap list' or a 'snap remove'
\* fails.
SnapCleanup(st) ==
    /\ upc = "cleanup"
    /\ Safe(st, AptSteps[1], "Unable to get list of all snaps in system")
    /\ failed' = FALSE
    /\ UNCHANGED <<initial, upgrade_post, vacuum_size, signal, xorg, posted>>
    /\ UNCHANGED <<scriptVars, fieldVars, diskVars, callVars, driverVars, aptVars>>

\* Steps 5 and 6: the i-th AptAction; a status other than 0 sets 'failed'.
AptStep(i, st) ==
    /\ upc = AptSteps[i]
    /\ failed' = (failed \/ st # 0)
    /\ upc' = IF i < Len(AptSteps) THEN AptSteps[i + 1] ELSE "stopping"
    /\ UNCHANGED <<initial, upgrade_post, vacuum_size, signal, xorg, uraised, posted>>
    /\ UNCHANGED <<scriptVars, fieldVars, diskVars, callVars, driverVars, aptVars>>

\* Step 7: "Kiosk updater stopping." and the post-upgrade command, unless
\* invoked with --initial.
PostUpgrade(st) ==
    /\ upc = "stopping"
    /\ IF initial
       THEN upc' = "ended" /\ UNCHANGED <<posted, uraised>>
       ELSE posted' = upgrade_post /\ Safe(st, "ended", upgrade_post \o " failed")
    /\ UNCHANGED <<initial, upgrade_post, vacuum_size, signal, xorg, failed>>
    /\ UNCHANGED <<scriptVars, fieldVars, diskVars, callVars, driverVars, aptVars>>

\* The steps of _main itself, apart from what other processes do.
UpdateStep ==
    \/ \E init \in BOOLEAN, post \in PostActions, size \in VacuumSizes :
          UpdateStarts(init, post, size)
    \/ \E st \in Statuses : Vacuum(st)
    \/ \E active \in BOOLEAN : InternetActive(active)
    \/ SignalCreate
    \/ \E st \in Statuses : KillXorg(st)
    \/ \E st \in Statuses : SnapRefresh(st)
    \/ \E st \in Statuses : PurgeCups(st)
    \/ \E st \in Statuses : SnapCleanup(st)
    \/ \E i \in 1..Len(AptSteps), st \in Statuses : AptStep(i, st)
    \/ \E st \in Statuses : PostUpgrade(st)

RunsInit == AptInit /\ UpdateInit

ToolsInit == CallInit /\ DriverInit /\ RunsInit

(***************************************************************************)
(* Specifications.                                                         *)
(***************************************************************************)
\* The Script engine, beside a Setup that is left alone.
Init == ScriptInit /\ FieldsInit /\ DiskInit /\ ToolsInit
Next == ScriptNext
Spec == Init /\ [][Next]_vars

\* The fields of a Setup under parse calls.
InitParse == ScriptInit /\ resume = 1 /\ FieldsInit /\ DiskInit /\ ToolsInit
NextParse == \E n \in ParseNames, raw \in RawTexts : ParseField(n, raw)
SpecParse == InitParse /\ [][NextParse]_vars

\* A Kiosk under assign, redact and save calls, and a Setup loaded from the
\* file it wrote.
InitKiosk == ScriptInit /\ resume = 1 /\ FieldsInit /\ DiskInit /\ ToolsInit
NextKiosk ==
    \/ \E n \in AssignNames, raw \in AssignTexts : Assign(n, raw)
    \/ \E path \in RedactPaths : Redact(path)
    \/ SaveKiosk
    \/ \E allow \in BOOLEAN : loadMode = "none" /\ LoadFresh(allow)
SpecKiosk == InitKiosk /\ [][NextKiosk]_vars

\* A hand-written file loaded into a freshly constructed Setup.
InitLoad ==
    ScriptInit /\ resume = 1 /\ FieldsStart /\ file \in HandFiles /\ DiskInit /\ ToolsInit
NextLoad == \E allow \in BOOLEAN : loadMode = "none" /\ LoadFresh(allow)
SpecLoad == InitLoad /\ [][NextLoad]_vars

\* The file Actions of a script, each executed and then executed again.
InitActions ==
    /\ ScriptInit /\ resume = 1 /\ FieldsInit
    /\ disk \in StartDisks
    /\ sealed \in {s \in SUBSET {"/b"} : \A p \in s : IsFile(disk, p)}
    /\ DiskStart
    /\ ToolsInit
NextActions == (\E a \in FileActions : ExecuteStep(a)) \/ RetryStep
SpecActions == InitActions /\ [][NextActions]_vars

\* Single parse calls on a fresh Setup.
InitCall == ScriptInit /\ resume = 1 /\ FieldsInit /\ DiskInit /\ ToolsInit
NextCall == \E n \in Names, raw \in CallTexts : ParseCall(n, raw)
SpecCall == InitCall /\ [][NextCall]_vars

\* One call of main: of either driver around any _main, and of the toolbox
\* driver around KioskSetup._main.
Scripts == UNION {[1..k -> ActionOutcomes] : k \in 1..MaxOutcomes}
InitDriver == ScriptInit /\ resume = 1 /\ FieldsInit /\ DiskInit /\ ToolsInit
NextDriver ==
    \/ \E d \in Drivers, w \in BOOLEAN : EnterMain(d, "any", w, 0, <<>>)
    \/ \E outs \in Scripts, r \in 0..MaxOutcomes :
          EnterMain("toolbox", "KioskSetup", FALSE, r, outs)
    \/ MainReturns
    \/ \E e \in Exceptions : MainRaises(e)
    \/ SetupMainEnds
    \/ MainExits
SpecDriver == InitDriver /\ [][NextDriver]_vars

\* A Setup that is edited, saved, and loaded into a second Setup.
InitFields == ScriptInit /\ resume = 1 /\ FieldsInit /\ DiskInit /\ ToolsInit
NextFields ==
    \/ \E n \in ParseNames, raw \in RawTexts :
          edits < MaxSavedEdits /\ file = <<>> /\ ParseField(n, raw)
    \/ Save
    \/ \E allow \in BOOLEAN : LoadFresh(allow)
SpecFields == InitFields /\ [][NextFields]_vars

\* One call of ExternalAptAction.execute while other processes open and
\* close the dpkg lock files.
InitApt == ScriptInit /\ resume = 1 /\ FieldsInit /\ DiskInit /\ ToolsInit
NextApt ==
    \/ LockChanges
    \/ AptExecute
    \/ PollFrontend
    \/ PollLock
    \/ AptSleep
    \/ \E st \in Statuses : AptInvoke(st)
SpecApt == InitApt /\ [][NextApt]_vars

\* One run of KioskUpdate._main. The run takes its next step as long as it
\* has one, and KioskOpenbox answers the signal.
InitUpdate == ScriptInit /\ resume = 1 /\ FieldsInit /\ DiskInit /\ ToolsInit
NextUpdate == UpdateStep \/ OpenboxRemovesSignal
SpecUpdate ==
    /\ InitUpdate /\ [][NextUpdate]_vars
    /\ WF_vars(UpdateStep)
    /\ WF_vars(OpenboxRemovesSignal)

(***************************************************************************)
(* Properties of the Script engine.                                        *)
(***************************************************************************)
\* execute() has been entered (in this process invocation).
Started == pc \notin {"build", "ready"}

\* The resume index lies in 1..len(actions).
ValidResume == resume \in 1..Len(actions)

Raising == {"KioskError", "InternalError"}

\* C1: with a valid resume index, an Action that returns a Result with a
\* non-zero status is the last Action execute() runs, and execute() returns
\* exactly that Result.
C1_AbortOnFailure ==
    (Started /\ ValidResume) =>
        \A i \in 1..Len(trace) :
            (trace[i].kind = "returned" /\ trace[i].status # 0) =>
                /\ i = Len(trace)
                /\ pc \in {"loop", "done"}
                /\ pc = "done" => result = [status |-> trace[i].status, output |-> trace[i].output]

\* Three Actions, resume 1: the first succeeded, the second failed, and
\* execute() has returned.
C1_Witness ==
    /\ pc = "done" /\ resume = 1 /\ Len(actions) = 3 /\ Len(trace) = 2
    /\ trace[1].kind = "returned" /\ trace[1].status = 0
    /\ trace[2].kind = "returned" /\ trace[2].status # 0
    /\ result.status = trace[2].status

\* C2: execute() with a resume index outside 1..len(actions) raises at once
\* and executes no Action.
C2_ResumeBounds ==
    (Started /\ ~ValidResume) =>
        (pc = "raised" /\ raised.type = "KioskError" /\ trace = <<>>)

\* C3: when an Action raised KioskError or InternalError, the Result that
\* execute() returns has a non-zero status and that error's text as output.
C3_ErrorBecomesFailingResult ==
    pc = "done" =>
        \A i \in 1..Len(trace) :
            trace[i].kind \in Raising =>
                (result.status # 0 /\ result.output = trace[i].output)

\* C4: an Action whose execute() raised an error that execute() catches is
\* the last Action of the run.
C4_AbortOnRaisedError ==
    \A i \in 1..Len(trace) : trace[i].kind \in Raising => i = Len(trace)

InterruptedAction == prevLog[Len(prevLog)].text
LoggedBelow(k) == {prevLog[j].text : j \in {n \in 1..Len(prevLog) : prevLog[n].kind = "step" /\ prevLog[n].index < k}}

\* C6: a run resumed with the step index logged for the interrupted Action
\* executes that Action first, the later ones in order, and none that was
\* logged with a smaller index.
C6_LoggedIndexResumes ==
    (run > 1 /\ Started) =>
        /\ ~(pc = "raised" /\ raised.type = "KioskError")
        /\ trace # <<>> => trace[1].action = InterruptedAction
        /\ \A i \in 1..Len(trace) :
              /\ trace[i].pos = trace[1].pos + i - 1
              /\ trace[i].action \notin LoggedBelow(resume)

\* C7: with a valid resume index r the executed Actions are the Actions at
\* positions r, r+1, ..., in append order, each once.
C7_ContiguousFromResume ==
    (Started /\ ValidResume) =>
        /\ \A i \in 1..Len(trace) :
              /\ trace[i].pos = resume + i - 1
              /\ trace[i].pos <= Len(actions)
              /\ trace[i].action = actions[trace[i].pos]
        /\ \A i, j \in 1..Len(trace) : i # j => trace[i].action # trace[j].action

\* Three Actions, resume 2: the second and the third ran, the first did not.
C7_Witness ==
    /\ pc = "done" /\ resume = 2 /\ Len(actions) = 3
    /\ Len(trace) = 2 /\ trace[1].pos = 2 /\ trace[2].pos = 3

\* The list holds no instance twice.
NoDuplicates ==
    \A i, j \in 1..Len(actions) : i # j => actions[i] # actions[j]

\* C8: appending an instance that is already in the list raises and leaves
\* the list unchanged; the list never holds an instance twice.
C8_DuplicateRejected ==
    /\ []NoDuplicates
    /\ [][\A a \in ActionIds :
            (Append_(a) /\ \E i \in 1..Len(actions) : actions[i] = a) =>
                (actions' = actions /\ addRaised'.type = "InternalError" /\ pc' = "build")]_vars

\* A second append of an instance was rejected while the Script is being built.
C8_Witness ==
    /\ pc = "build" /\ addRaised.type = "InternalError" /\ Len(actions) = 2
    /\ trace = <<>>

(***************************************************************************)
(* Properties of the configuration model.                                  *)
(***************************************************************************)
\* C9: the Setup loaded from the file that save wrote holds, for every field,
\* the data the saved Setup held.
C9_RoundTrip ==
    loadMode # "none" => \A n \in Names : other[n].data = fileOf[n]

\* C10: a parse call that fails raises a FieldError naming the field and
\* leaves the field's data and its assigned flag as they were.
C10_FailedParseKeepsField ==
    lastParse.error.type # "none" =>
        /\ lastParse.error.type = "FieldError"
        /\ lastParse.error.field = lastParse.field
        /\ kiosk[lastParse.field] = lastParse.before

\* idle_timeout holds 30 and parse("-5") has just failed on it.
C10_Witness ==
    /\ lastParse.field = "idle_timeout"
    /\ lastParse.error = FieldError("idle_timeout", "Invalid positive integer in field")
    /\ lastParse.before.data = 30
    /\ kiosk["idle_timeout"].data = 30

(***************************************************************************)
(* Properties of the Kiosk.                                                *)
(***************************************************************************)
\* The validation predicate of a field's class, on the data it holds.
ValidData(d, fld) ==
    CASE d.kind = "Boolean"        -> fld.data \in BOOLEAN
      [] d.kind = "Natural"        -> fld.data \in d.lower..d.upper
      [] d.kind = "OptionalString" -> Len(fld.data) >= 0
      [] d.kind = "String"         -> fld.data # ""
      [] d.kind = "Choice"         -> fld.data \in d.choices
      [] d.kind = "Password"       -> fld.data # "" /\ Char(fld.data, 1) # "$" /\ Len(fld.data) <= 72
      [] d.kind = "Regex"          -> FullMatchClass(fld.data, d.class, d.lower, d.upper)
      [] d.kind = "OptionalRegex"  -> fld.data = "" \/ FullMatchClass(fld.data, d.class, d.lower, d.upper)
      [] d.kind = "OptionalTime"   -> fld.data = "" \/ StrptimeHM(fld.data)

IsSection(l) == RStrip(l) # "" /\ Char(RStrip(l), 1) = "[" /\ Char(RStrip(l), Len(RStrip(l))) = "]"
IsAssignment(l) == ~Ignored(l) /\ ~IsSection(l) /\ Find(RStrip(l), "=") >= 0
LineName(l) == Strip(SubSeq(RStrip(l), 1, Find(RStrip(l), "=")))
LineData(l) == Strip(SubSeq(RStrip(l), Find(RStrip(l), "=") + 2, Len(RStrip(l))))
AssignsDeclared(l) == IsAssignment(l) /\ LineName(l) \in Names
\* The field a freshly constructed Setup holds after parse of the line's text.
ParsedFrom(l) == Parse(Decl(LineName(l)), NewSetup[LineName(l)], LineData(l))
ValidAssignment(l) == AssignsDeclared(l) /\ ParsedFrom(l).error.type = "none"

\* The lines of f that assign the field n, and the last of them.
LinesOf(f, n) == {i \in 1..Len(f) : AssignsDeclared(f[i]) /\ LineName(f[i]) = n}
LastOf(S) == CHOOSE i \in S : \A j \in S : j <= i

\* Every line of f is ignored or a valid assignment, and every declared field
\* is assigned exactly once.
WellFormedComplete(f) ==
    /\ \A i \in 1..Len(f) : Ignored(f[i]) \/ ValidAssignment(f[i])
    /\ \A n \in Names : Cardinality(LinesOf(f, n)) = 1

\* C12: a file that assigns every declared field exactly once with valid text,
\* loaded into a fresh Setup with redefinition not permitted, yields no error
\* and every field holds the value parsed from its line.
C12_StrictLoadOfCompleteFile ==
    (loadMode = "strict" /\ WellFormedComplete(file)) =>
        /\ errors = <<>>
        /\ \A n \in Names : other[n].data = ParsedFrom(file[LastOf(LinesOf(file, n))]).field.data

\* t occurs in s.
HasSubstring(s, t) == \E i \in 1..(Len(s) - Len(t) + 1) : SubSeq(s, i, i + Len(t) - 1) = t

\* C13: a load with redefinition not permitted returns, for every declared
\* field the file does not assign, a "never assigned" error naming the field.
C13_NeverAssignedReported ==
    loadMode = "strict" =>
        \A n \in Names :
            LinesOf(file, n) = {} =>
                \E i \in 1..Len(errors) :
                    /\ HasSubstring(errors[i].text, "never assigned")
                    /\ HasSubstring(errors[i].text, n)

RedefinitionText(n) == "Illegal redefinition of field '" \o n \o "'"

\* C14: when a file assigns a field twice, a load with redefinition not
\* permitted returns an error tagged with the line number of the second
\* occurrence and does not apply that line; a load with redefinition permitted
\* returns no redefinition error and applies the later value.
C14_RedefinitionRejectedUnlessAllowed ==
    \A n \in Names : \A i, j \in LinesOf(file, n) :
        i < j =>
            /\ loadMode = "strict" =>
                  /\ \E k \in 1..Len(errors) :
                        errors[k] = TextFileError(KioskPath, j, RedefinitionText(n))
                  /\ j = LastOf(LinesOf(file, n)) =>
                        other[n] = LoadList(NewSetup, KioskPath, SubSeq(file, 1, j - 1), FALSE).setup[n]
            /\ loadMode = "redefine" =>
                  /\ \A k \in 1..Len(errors) : errors[k].text # RedefinitionText(n)
                  /\ (j = LastOf(LinesOf(file, n)) /\ ValidAssignment(file[j])) =>
                        other[n].data = ParsedFrom(file[j]).field.data

\* swap_size=4 then swap_size=7, loaded with redefinition not permitted: the
\* second line is reported and swap_size is not 7.
C14_Witness ==
    /\ file = <<"swap_size=4", "swap_size=7">>
    /\ loadMode = "strict"
    /\ Len(errors) >= 1 /\ errors[Len(errors)].line = 2
    /\ other["swap_size"].data = 4

\* The lines load_list has to report: a section line, a line without '=', an
\* undeclared name, a text that fails parse and, when redefinition is not
\* permitted, a second assignment of a field.
Problematic(f, i, mode) ==
    /\ ~Ignored(f[i])
    /\ \/ ~ValidAssignment(f[i])
       \/ mode = "strict" /\ \E j \in LinesOf(f, LineName(f[i])) : j < i
ProblemLines(f, mode) == {i \in 1..Len(f) : Problematic(f, i, mode)}

\* C15: load_list returns exactly one error per problematic line, tagged with
\* the path and the 1-based line number, in file order, and applies every
\* valid line.
C15_OneErrorPerBadLine ==
    loadMode # "none" =>
        /\ Len(errors) = Cardinality(ProblemLines(file, loadMode))
        /\ \A k \in 1..Len(errors) :
              /\ errors[k].file = KioskPath
              /\ errors[k].line \in ProblemLines(file, loadMode)
              /\ \A m \in 1..Len(errors) : k < m => errors[k].line < errors[m].line
        /\ \A n \in Names :
              LET good == {i \in LinesOf(file, n) : ~Problematic(file, i, loadMode)}
              IN  good # {} => other[n].data = ParsedFrom(file[LastOf(good)]).field.data

AssignmentsOf(f, n) == {f[i] : i \in LinesOf(f, n)}

\* The passwords the two Kiosks were constructed with.
OriginalPasswords == {NewSetup["user_code"].data, TwinSetup["user_code"].data}

\* C17: when the file is written right after a redact call that redacted
\* user_code, two Kiosks that differ only in user_code write the same lines;
\* the lines assign the sentinel to user_code and hold neither password.
C17_RedactedPasswordNotSaved ==
    (file # <<>> /\ savedAfter.op \in RedactPaths /\ "user_code" \in savedAfter.done) =>
        /\ file = twinFile
        /\ AssignmentsOf(file, "user_code") = {"user_code=REDACTED"}
        /\ \A i \in 1..Len(file) : \A pw \in OriginalPasswords : ~HasSubstring(file[i], pw)

\* redact(["user_code"]) and then save, on two Kiosks with different passwords.
C17_Witness ==
    /\ savedAfter.op = "password" /\ savedAfter.done = {"user_code"}
    /\ lastCall.op = "save"
    /\ prior["user_code"].data = "REDACTED"
    /\ \E i \in 1..Len(twinFile) : twinFile[i] = "user_code=REDACTED"

\* The fields that bear credentials.
CredentialFields == {"user_code", "wifi_code", "ssh_key", "user_name"}

\* The file assigns the sentinel, and nothing else, to the field n.
RedactedInFile(f, n) == AssignmentsOf(f, n) = {n \o "=REDACTED"}

NamesIn(list) == {list[i] : i \in 1..Len(list)}

C20_RetryLeavesSameDisk ==
    retry.done =>
        /\ retry.status = 0
        /\ retry.raised = "none"
        /\ disk = once


(***************************************************************************)
(* Properties of single parse calls.                                       *)
(***************************************************************************)
CallAccepted == parsed.name # "" /\ parsed.error = NoFieldError
CallOf(kind) == parsed.name # "" /\ Decl(parsed.name).kind = kind

TrueTokens == {"y", "yes", "1", "true", "t"}
FalseTokens == {"n", "no", "0", "false", "f"}

\* C28: a Boolean field accepts a text exactly when its lower-case form is
\* one of y, yes, 1, true, t (stored as TRUE) or n, no, 0, false, f (stored
\* as FALSE).
C28_BooleanTokens ==
    CallOf("Boolean") =>
        /\ CallAccepted <=> Lower(parsed.raw) \in TrueTokens \cup FalseTokens
        /\ CallAccepted => (parsed.field.data <=> Lower(parsed.raw) \in TrueTokens)

IsUnsigned(text) ==
    text # "" /\ \A i \in 1..Len(text) : Char(text, i) \in Digits

InRange(d, value) == value >= d.lower /\ value <= d.upper

\* C29: a Natural field accepts a text exactly when it is an integer
\* without a sign, i.e. consists of digits only, and its value lies in
\* [lower, upper].
C29_NaturalPlainUnsigned ==
    CallOf("Natural") =>
        (CallAccepted <=>
            /\ IsUnsigned(parsed.raw)
            /\ InRange(Decl(parsed.name), DigitsValue(parsed.raw, 0)))

IsHHMM(text) ==
    /\ Len(text) = 5
    /\ \A i \in {1, 2, 4, 5} : Char(text, i) \in Digits
    /\ Char(text, 3) = ":"
    /\ DigitsValue(SubSeq(text, 1, 2), 0) <= 23
    /\ DigitsValue(SubSeq(text, 4, 5), 0) <= 59

\* C30: a time field that accepted a non-empty text holds a text of the
\* form HH:MM, and the cron schedule built from it names its minute and
\* its hour.
C30_TimeIsHHMM ==
    CallOf("OptionalTime") /\ CallAccepted /\ parsed.raw # "" =>
        /\ IsHHMM(parsed.raw)
        /\ CronMinute(parsed.field.data) = SubSeq(parsed.raw, 4, 5)
        /\ CronHour(parsed.field.data) = SubSeq(parsed.raw, 1, 2)


(***************************************************************************)
(* Properties of single file Actions.                                      *)
(***************************************************************************)
\* The latest execution, a first one or a retry, and how it ended.
Latest ==
    IF retry.done THEN [status |-> retry.status, raised |-> retry.raised]
    ELSE [status |-> step.status, raised |-> step.raised]
Succeeded == Latest.raised = "none" /\ Latest.status = 0
ReportedFailure == Latest.raised = "none" /\ Latest.status # 0

Occurs(text, part) ==
    \E i \in 1..(Len(text) - Len(part) + 1) : SubSeq(text, i, i + Len(part) - 1) = part

\* C24: when ReplaceTextAction is executed on a file in which the source
\* text does not occur, it does not report success and the file keeps its
\* content.
C24_ReplaceFailsWithoutOccurrence ==
    /\ step.action.class = "ReplaceTextAction"
    /\ IsFile(prev, step.action.path)
    /\ ~Occurs(prev[step.action.path].text, step.action.source_text)
    => /\ ~Succeeded
       /\ disk[step.action.path].text = prev[step.action.path].text

\* C25: CreateTextWithUserAndModeAction reports success only when the
\* folder of the file exists, the file holds the text and carries the owner
\* and the mode; otherwise it returns a Result with a status other than 0,
\* and a file whose write failed keeps its owner and mode.
C25_OwnedFileAllOrFailure ==
    step.action.class = "CreateTextWithUserAndModeAction" =>
        LET path == step.action.path
        IN  /\ Succeeded =>
                /\ IsDir(disk, DirName(path))
                /\ disk[path] = FileEntry(step.action.text, step.action.user,
                                          step.action.access)
            /\ ~Succeeded =>
                /\ ReportedFailure
                /\ disk[path].owner = prev[path].owner
                /\ disk[path].access = prev[path].access


(***************************************************************************)
(* Properties of the log of Script.execute.                                *)
(***************************************************************************)
LinesOfKind(kind) == {i \in 1..Len(log) : log[i].kind = kind}
AllSucceeded ==
    \A i \in 1..Len(trace) : trace[i].kind = "returned" /\ trace[i].status = 0
SomeFailed ==
    \E i \in 1..Len(trace) : trace[i].kind = "returned" /\ trace[i].status # 0

\* C23: a call of execute() that returned logged one terminal outcome: the
\* "finished" line as its last line when every executed Action succeeded;
\* the abort banner, behind the step line of the failing Action, and no
\* "finished" line when an Action failed.
C23_OneTerminalOutcome ==
    pc = "done" =>
        /\ AllSucceeded =>
              /\ LinesOfKind("finished") = {Len(log)}
              /\ LinesOfKind("abort") = {}
        /\ SomeFailed =>
              /\ Cardinality(LinesOfKind("abort")) = 1
              /\ \A i \in LinesOfKind("abort"), j \in LinesOfKind("step") : j < i
              /\ LinesOfKind("finished") = {}


Executed ==
    {i \in 1..Len(outcomes) : i > program.resume /\
        \A j \in (program.resume + 1)..(i - 1) : outcomes[j] \notin {"failed", "OSError"}}
C22_RebootOnlyAfterFullSuccess ==
    program.main = "KioskSetup" /\ dpc = "exited" =>
        /\ rebooted => \A i \in Executed : outcomes[i] = "ok"
        /\ (\E i \in Executed : outcomes[i] # "ok") =>
              /\ ~rebooted
              /\ exitStatus # EXIT_SUCCESS
              /\ thrown.type = "KioskError"

(***************************************************************************)
(* Properties of ExternalAptAction.execute.                                *)
(***************************************************************************)
BothFree == report.frontend # NoStatus /\ report.frontend # 0
            /\ report.lock # NoStatus /\ report.lock # 0

ReportedHeld == report.frontend = 0 \/ report.lock = 0

\* C26: the command line is invoked only after a poll in which lsof
\* reported neither lock file open, and at most once; after a poll that
\* reported one open, execute sleeps and polls again without invoking.
C26_InvokesOnlyWhenUnlocked ==
    /\ [](invoked > 0 => BothFree /\ invoked = 1)
    /\ [](apc \in {"sleep", "invoke"} => (ReportedHeld <=> apc = "sleep"))
    /\ [][invoked' # invoked => apc = "invoke" /\ BothFree]_vars
    /\ [][apc = "sleep" /\ apc' # apc => apc' = "frontend" /\ invoked' = invoked]_vars

\* execute slept twice, after lock-frontend and after lock were reported
\* open, and then invoked its command.
C26_Witness ==
    /\ apc = "returned"
    /\ sleeps = 2
    /\ invoked = 1
    /\ aptStatus = 0

(***************************************************************************)
(* Properties of KioskUpdate._main.                                        *)
(***************************************************************************)
\* C27: a run without --initial that loaded its configuration eventually
\* invokes the configured post-upgrade command, also after it signalled
\* Chromium to shut down and stopped X11, whatever internet_active() and
\* the snap and apt commands answer.
C27_EndsWithPostUpgrade ==
    /\ (upc # "idle" /\ ~initial) ~> (posted = upgrade_post)
    /\ (upc # "idle" /\ ~initial /\ ~xorg) ~> (posted = upgrade_post)

====
